---- MODULE Spec2Model ----
(***************************************************************************)
(* Model of the prerequisite / trigger expression engine of cylc-flow:     *)
(*   cylc/flow/prerequisite.py   (MessageTuple, ExpressionList,            *)
(*                                Prerequisite)                            *)
(*   cylc/flow/trigger_expression.py  (listify_str_expression)             *)
(*   cylc/flow/network/server.py      (WorkflowRuntimeServer.receiver)     *)
(* Python values are encoded as follows.                                   *)
(*   None / Optional[T]   a sequence of length 0 (None) or 1 (<<v>>)       *)
(*   dict (ordered)       a sequence of <<key, value>> pairs, in insertion *)
(*                        order                                            *)
(*   MessageTuple         <<point, name, output>> (positional fields)      *)
(*   an outcome of a call [exc |-> "" or the exception's name, val |-> v]  *)
(***************************************************************************)
EXTENDS Integers, Sequences, FiniteSets, TLC

VARIABLES
    satisfied,               \* Prerequisite.satisfied (ordered dict)
    all_satisfied,           \* Prerequisite._all_satisfied (Optional[bool])
    target_point_strings,    \* Prerequisite.target_point_strings (list)
    conditional_expression,  \* Prerequisite.conditional_expression (Optional)
    last,                    \* the last call made: [op, arg, ret, exc]
    arrived,                 \* history: the messages given to satisfy_me
                             \* since they were registered (kept by
                             \* ArriveSpec only)
    reader,                  \* the call in progress on the reporting path:
                             \* [pc, op, val, exc, unknown] (moved by
                             \* RaceSpec only)
    frame,                   \* the TriggerExpression constructor in
                             \* progress: its locals and its position
                             \* (moved by TriggerSpec only)
    server                   \* the WorkflowRuntimeServer object, its thread
                             \* and the caller of stop() (moved by
                             \* ServerSpec only)

vars == <<satisfied, all_satisfied, target_point_strings,
          conditional_expression, last, arrived, reader, frame, server>>

(***************************************************************************)
(* Bounds of the model.                                                    *)
(***************************************************************************)
\* dependencies registered on one prerequisite
MaxDeps == 2
\* messages in one satisfy_me call
MaxOutputs == 2
\* nesting depth of the expression lists given to ExpressionList
MaxDepth == 1

(***************************************************************************)
(* Python helpers.                                                         *)
(***************************************************************************)
None == <<>>
Some(v) == <<v>>

Return(v) == [exc |-> "", val |-> v]
Raise(e) == [exc |-> e, val |-> None]

\* str(point): a PointBase renders its value, a str is itself.
Str(point) ==
    IF point.kind = "str" THEN point.value ELSE ToString(point.value)

\* truth value of a point argument: a str is falsy when empty, an object
\* without __bool__ or __len__ is truthy.
PointTruthy(point) ==
    IF point.kind = "str" THEN point.value # "" ELSE TRUE

\* prerequisite.py:143-145
DEP_STATE_SATISFIED == "satisfied naturally"
DEP_STATE_OVERRIDDEN == "force satisfied"
\* the Python value False
DEP_STATE_UNSATISFIED == "False"

\* bool(v) of a dependency state (False, or a non-empty str)
Bool(v) == v # DEP_STATE_UNSATISFIED /\ v # ""

\* prerequisite.py:37-41
MessageTuple(point, name, output) == <<point, name, output>>

\* any(d.values())
AnyValue(d) == \E i \in 1..Len(d) : Bool(d[i][2])

\* ordered dict operations
DictKeys(d) == {d[i][1] : i \in 1..Len(d)}
DictIndex(d, k) == CHOOSE i \in 1..Len(d) : d[i][1] = k
DictGet(d, k) == d[DictIndex(d, k)][2]
DictSet(d, k, v) ==
    IF k \in DictKeys(d)
    THEN [d EXCEPT ![DictIndex(d, k)] = <<k, v>>]
    ELSE Append(d, <<k, v>>)
\* all(d.values())
AllValues(d) == \A i \in 1..Len(d) : Bool(d[i][2])

(***************************************************************************)
(* ExpressionList (prerequisite.py:47-117).                                *)
(* The input list holds TaskTrigger objects, nested lists and operator     *)
(* strings: [kind |-> "TaskTrigger", task_name, output],                   *)
(* [kind |-> "list", val |-> <<...>>], [kind |-> "str", val |-> "&"].      *)
(***************************************************************************)
\* ExpressionList._op_map
OpMap(s) == IF s = "&" THEN "and_" ELSE "or_"
OpMapKeys == {"&", "|"}

\* TaskTrigger.get_point(point) of a trigger without offset: the point of
\* the task the expression belongs to.
TaskTriggerGetPoint(trig, point) == point

\* the MessageTuple built for a TaskTrigger operand (lines 64-67): the
\* arguments are passed positionally as (task_name, point string, output).
LeafMessage(val, point) ==
    MessageTuple(val.task_name, Str(TaskTriggerGetPoint(val, point)), val.output)

\* line 86: only this list's own operators are inspected
IsConditional(operators) ==
    \E i \in 1..Len(operators) : operators[i] = "or_"

RECURSIVE ExpressionList(_, _)
ExpressionList(expr, point) ==
    LET n == Len(expr)
        \* the value appended for the element at (1-based) position k;
        \* Python index i = k - 1
        conv == [k \in 1..n |->
            IF (k - 1) % 2 = 0
            THEN IF expr[k].kind = "TaskTrigger"
                 THEN [kind |-> "MessageTuple", m |-> LeafMessage(expr[k], point)]
                 ELSE IF expr[k].kind = "list"
                      THEN ExpressionList(expr[k].val, point)
                      ELSE [kind |-> "raise", exc |-> "ValueError"]
            ELSE IF expr[k].kind = "str" /\ expr[k].val \in OpMapKeys
                 THEN [kind |-> "operator", op |-> OpMap(expr[k].val)]
                 ELSE [kind |-> "raise", exc |-> "ValueError"]]
        bad == {k \in 1..n : conv[k].kind = "raise"}
        items == [j \in 1..((n + 1) \div 2) |-> conv[2 * j - 1]]
        operators == <<"None">> \o [j \in 1..(n \div 2) |-> conv[2 * j].op]
    IN  IF bad # {}
        THEN [kind |-> "raise", exc |-> "ValueError"]
        ELSE [kind |-> "ExpressionList",
              orig_list |-> expr,
              operators |-> operators,
              items |-> items,
              is_conditional |-> IsConditional(operators)]

\* list(zip(self.operators, self.items)), line 85
Zipped(self) ==
    LET n == IF Len(self.operators) < Len(self.items)
             THEN Len(self.operators) ELSE Len(self.items)
    IN  [j \in 1..n |-> <<self.operators[j], self.items[j]>>]

\* the operators with or_ taken as exclusive
ApplyOperatorExclusive(operator, ret, value) ==
    IF operator = "and_" THEN ret /\ value ELSE ret # value

\* operator(ret, value) for and_ / or_ on bools (line 93)
ApplyOperator(operator, ret, value) ==
    IF operator = "and_" THEN ret /\ value ELSE ret \/ value

\* an item evaluated as the state of the mapping's first entry
EvaluateItemFirst(item, sat) == Return(Bool(sat[1][2]))

RECURSIVE Evaluate(_, _)
RECURSIVE EvaluateItem(_, _)
RECURSIVE EvaluateRest(_, _, _, _)

\* ExpressionList._evaluate_item, lines 96-103
EvaluateItem(item, sat) ==
    IF item.kind = "ExpressionList"
    THEN Evaluate(item, sat)
    ELSE IF item.m \in DictKeys(sat)
         THEN Return(Bool(DictGet(sat, item.m)))
         ELSE Raise("KeyError")

\* a fold that groups from the right: ret op (the rest)
RECURSIVE EvaluateRestRight(_, _, _, _)
EvaluateRestRight(zipped, sat, j, ret) ==
    IF j > Len(zipped)
    THEN Return(ret)
    ELSE LET r == EvaluateItem(zipped[j][2], sat)
         IN  IF r.exc # ""
             THEN r
             ELSE LET t == EvaluateRestRight(zipped, sat, j + 1, r.val)
                  IN  IF t.exc # ""
                      THEN t
                      ELSE Return(ApplyOperator(zipped[j][1], ret, t.val))

\* the loop of ExpressionList.evaluate, lines 91-94, from position j on
EvaluateRest(zipped, sat, j, ret) ==
    IF j > Len(zipped)
    THEN Return(ret)
    ELSE LET r == EvaluateItem(zipped[j][2], sat)
         IN  IF r.exc # ""
             THEN r
             ELSE EvaluateRest(zipped, sat, j + 1,
                               ApplyOperator(zipped[j][1], ret, r.val))

\* ExpressionList.evaluate, lines 88-94
Evaluate(self, sat) ==
    LET zipped == Zipped(self)
    IN  IF Len(zipped) = 0
        THEN Raise("IndexError")
        ELSE LET first == EvaluateItem(zipped[1][2], sat)
             IN  IF first.exc # ""
                 THEN first
                 ELSE EvaluateRest(zipped, sat, 2, first.val)

(***************************************************************************)
(* Prerequisite (prerequisite.py:120-402).                                 *)
(***************************************************************************)
\* the key add() registers, line 192
AddMessage(name, point, output) == MessageTuple(Str(point), name, output)

\* add() registering a pre-initial dependency as overridden
AddStateOverridden(pre_initial) ==
    IF pre_initial THEN DEP_STATE_OVERRIDDEN ELSE DEP_STATE_UNSATISFIED

\* the state add() registers, lines 194-198
AddState(pre_initial) ==
    IF pre_initial THEN DEP_STATE_SATISFIED ELSE DEP_STATE_UNSATISFIED

\* add() leaving the cached state as it is
AddCacheKeep(cache) == cache

\* lines 199-200
AddCache(cache) == IF cache # None THEN Some(FALSE) ELSE None

\* lines 201-202
AddTargetPoints(tps, point) ==
    IF PointTruthy(point) /\ \A i \in 1..Len(tps) : tps[i] # Str(point)
    THEN Append(tps, Str(point))
    ELSE tps

\* Prerequisite._conditional_is_satisfied, lines 288-304: evaluate raises
\* neither SyntaxError nor ValueError, so its exceptions pass through.
ConditionalIsSatisfied(sat, cond) == Evaluate(cond[1], sat)

\* the evaluation made by satisfy_me, set_satisfied and set_not_satisfied
\* (lines 315-318): `conditional_expression is None`
Recompute(sat, cond) ==
    IF cond = None
    THEN Return(AllValues(sat))
    ELSE ConditionalIsSatisfied(sat, cond)

\* is_satisfied evaluating whatever the cache holds
IsSatisfiedCallRecompute(sat, cond, cache) ==
    IF Len(sat) = 0
    THEN [exc |-> "", val |-> TRUE, cache |-> cache]
    ELSE LET r == IF cond # None
                  THEN ConditionalIsSatisfied(sat, cond)
                  ELSE Return(AllValues(sat))
         IN  IF r.exc # ""
             THEN [exc |-> r.exc, val |-> None, cache |-> cache]
             ELSE [exc |-> "", val |-> r.val, cache |-> Some(r.val)]

\* Prerequisite.is_satisfied, lines 258-275: [exc, val, cache]
IsSatisfiedCall(sat, cond, cache) ==
    IF cache # None
    THEN [exc |-> "", val |-> cache[1], cache |-> cache]
    ELSE IF Len(sat) = 0
    THEN [exc |-> "", val |-> TRUE, cache |-> cache]
    ELSE LET r == IF cond # None
                  THEN ConditionalIsSatisfied(sat, cond)
                  ELSE Return(AllValues(sat))
         IN  IF r.exc # ""
             THEN [exc |-> r.exc, val |-> None, cache |-> cache]
             ELSE [exc |-> "", val |-> r.val, cache |-> Some(r.val)]

\* the outputs taken without intersecting them with the dict's keys
RelevantMessagesAll(all_task_outputs, sat) == all_task_outputs

\* line 312
RelevantMessages(all_task_outputs, sat) == all_task_outputs \cap DictKeys(sat)

\* the loop marking no message
SatisfyAllNone(sat, msgs) == sat

\* the dict after marking every message of a set, lines 313-314
RECURSIVE SatisfyAll(_, _)
SatisfyAll(sat, msgs) ==
    IF msgs = {}
    THEN sat
    ELSE LET m == CHOOSE x \in msgs : TRUE
         IN  SatisfyAll(DictSet(sat, m, DEP_STATE_SATISFIED), msgs \ {m})

\* the messages the loop of line 313 can visit first: the iteration order
\* of a set is not fixed by its contents, but equal sets built the same way
\* in one process iterate in the same order.  The order shows only when the
\* evaluation raises; None stands for any order otherwise.
FirstMessages(sat, cond, all_task_outputs) ==
    LET relevant_messages == RelevantMessages(all_task_outputs, sat)
    IN  IF relevant_messages = {}
           \/ Recompute(SatisfyAll(sat, relevant_messages), cond).exc = ""
        THEN {None}
        ELSE relevant_messages

\* satisfy_me evaluating before it marks the messages
SatisfyMeCallStale(sat, cond, cache, all_task_outputs, first) ==
    LET relevant_messages == RelevantMessages(all_task_outputs, sat)
        r == Recompute(sat, cond)
    IN  IF relevant_messages = {}
        THEN [sat |-> sat, cache |-> cache, ret |-> relevant_messages, exc |-> ""]
        ELSE IF r.exc = ""
        THEN [sat |-> SatisfyAll(sat, relevant_messages), cache |-> Some(r.val),
              ret |-> relevant_messages, exc |-> ""]
        ELSE [sat |-> sat, cache |-> cache, ret |-> None, exc |-> r.exc]

\* Prerequisite.satisfy_me, lines 306-319, as a function of the object's
\* fields: [sat, cache, ret, exc].  The evaluation is repeated after each
\* message; when it raises it does so after the first message was marked
\* (an exception of evaluate does not depend on the states), and first is
\* that message.
SatisfyMeCall(sat, cond, cache, all_task_outputs, first) ==
    LET relevant_messages == RelevantMessages(all_task_outputs, sat)
        done == SatisfyAll(sat, relevant_messages)
        r == Recompute(done, cond)
    IN  IF relevant_messages = {}
        THEN [sat |-> sat, cache |-> cache, ret |-> relevant_messages, exc |-> ""]
        ELSE IF r.exc = ""
        THEN [sat |-> done, cache |-> Some(r.val),
              ret |-> relevant_messages, exc |-> ""]
        ELSE [sat |-> DictSet(sat, first, DEP_STATE_SATISFIED), cache |-> cache,
              ret |-> None, exc |-> r.exc]

\* the number of times satisfy_me evaluates the prerequisite (lines 313-318):
\* the evaluation is inside the loop, so it is made once for each matched
\* message, and once only when it raises
SatisfyMeEvaluations(sat, cond, all_task_outputs) ==
    LET relevant_messages == RelevantMessages(all_task_outputs, sat)
    IN  IF relevant_messages = {}
        THEN 0
        ELSE IF Recompute(SatisfyAll(sat, relevant_messages), cond).exc # ""
             THEN 1
             ELSE Cardinality(relevant_messages)

\* set_satisfied overriding every dependency, satisfied or not
ForceSatisfiedAll(sat) ==
    [i \in 1..Len(sat) |-> <<sat[i][1], DEP_STATE_OVERRIDDEN>>]

\* set_satisfied with the branches of set_not_satisfied
SetSatisfiedResultAsNot(forced, cond) ==
    IF Len(forced) = 0
    THEN Return(TRUE)
    ELSE IF cond = None
         THEN Return(FALSE)
         ELSE ConditionalIsSatisfied(forced, cond)

\* f'{point}/{name}' of a key (line 400)
ResolvedString(message) == message[1] \o "/" \o message[2]

\* the list listing every dependency that is not Unsatisfied
ResolvedDependenciesTruthy(sat) ==
    LET kept == SelectSeq(sat, LAMBDA kv : Bool(kv[2]))
    IN  [i \in 1..Len(kept) |-> ResolvedString(kept[i][1])]

\* the list comprehension of lines 400-402
ResolvedDependencies(sat) ==
    LET kept == SelectSeq(sat, LAMBDA kv : kv[2] = DEP_STATE_SATISFIED)
    IN  [i \in 1..Len(kept) |-> ResolvedString(kept[i][1])]

(***************************************************************************)
(* api_dump.  The expression string is modelled as the sequence of the     *)
(* parts it is formatted from: the digits of a point or of a name made of  *)
(* digits, one part each; a name or an output that is a word; "/"; " ";    *)
(* an operator; a parenthesis; an alias.  str.replace matches runs of      *)
(* characters, which are runs of parts here: the string looked for starts  *)
(* with the digits of a point and ends with a whole output, and no word    *)
(* or alias holds a digit followed by "/", so no match starts or ends      *)
(* inside a word or an alias.  The other strings of the result are         *)
(* strings.                                                                *)
(***************************************************************************)
\* the parts of a point string or of a name
Parts(s) ==
    IF s = "" THEN <<>> ELSE IF s = "11" THEN <<"1", "1">> ELSE <<s>>

\* MESSAGE_TEMPLATE % message, line 141
MessageTemplate(message) ==
    Parts(message[1]) \o <<"/">> \o Parts(message[2]) \o <<" ", message[3]>>

\* self.flat_list, lines 60 and 83: the items and the operator strings in
\* the order of the list
FlatList(self) ==
    [k \in 1..Len(self.orig_list) |->
        IF k % 2 = 1 THEN self.items[(k + 1) \div 2] ELSE self.orig_list[k]]

\* ExpressionList.__str__, lines 105-114
RECURSIVE StrExpressionList(_)
StrExpressionList(self) ==
    LET flat_list == FlatList(self)
        ret[k \in 0..Len(flat_list)] ==
            IF k = 0
            THEN <<>>
            ELSE ret[k - 1] \o
                 (IF flat_list[k].kind = "MessageTuple"
                  THEN MessageTemplate(flat_list[k].m)
                  ELSE IF flat_list[k].kind = "ExpressionList"
                       THEN <<"(">> \o StrExpressionList(flat_list[k]) \o <<")">>
                       ELSE <<" ", flat_list[k].val, " ">>)
    IN  ret[Len(flat_list)]

\* str.replace(old, new): the occurrences of old, left to right and not
\* overlapping
RECURSIVE Replace(_, _, _)
Replace(temp, old, new) ==
    IF Len(temp) < Len(old)
    THEN temp
    ELSE IF SubSeq(temp, 1, Len(old)) = old
         THEN new \o Replace(SubSeq(temp, Len(old) + 1, Len(temp)), old, new)
         ELSE <<Head(temp)>> \o Replace(Tail(temp), old, new)

\* the order of str on the strings of the model (code point order)
StrRank ==
    ("1" :> 1) @@ ("11" :> 2) @@ ("failed" :> 3) @@ ("foo" :> 4)
        @@ ("succeeded" :> 5)
\* the order of tuples: by the first field that differs
TupleLess(a, b) ==
    \E i \in 1..Len(a) :
        /\ StrRank[a[i]] < StrRank[b[i]]
        /\ \A j \in 1..(i - 1) : a[j] = b[j]

\* sorted(self.satisfied), line 334: the keys in ascending order
SortedKeys(sat) == SortSeq([i \in 1..Len(sat) |-> sat[i][1]], TupleLess)

\* math.ceil(len(self.satisfied) / 10), line 333
NumLength(sat) == (Len(sat) + 9) \div 10

\* 'c%.{0}d'.format(num_length) % ind, line 337: ind in decimal, padded with
\* zeros to at least num_length digits
RECURSIVE NumDigits(_)
NumDigits(n) == IF n < 10 THEN 1 ELSE 1 + NumDigits(n \div 10)
RECURSIVE Zeros(_)
Zeros(n) == IF n <= 0 THEN "" ELSE "0" \o Zeros(n - 1)
Alias(ind, num_length) ==
    "c" \o Zeros(num_length - NumDigits(ind)) \o ToString(ind)

\* Tokens(cycle=str(point), task=name).relative_id, line 336
RelativeId(point, name) == point \o "/" \o name

\* the PbCondition of lines 335-348 for the key at (0-based) index ind
Condition(sat, message_tuple, ind) ==
    LET c_val == DictGet(sat, message_tuple)
        c_bool == Bool(c_val)
    IN  [task_proxy |-> RelativeId(message_tuple[1], message_tuple[2]),
         expr_alias |-> Alias(ind, NumLength(sat)),
         req_state |-> message_tuple[3],
         satisfied |-> c_bool,
         message |-> IF c_bool = FALSE THEN "unsatisfied" ELSE c_val]

\* temp after the replacements of line 349 for the first k keys of keys
RECURSIVE Aliased(_, _, _, _)
Aliased(temp, sat, keys, k) ==
    IF k = 0
    THEN temp
    ELSE Replace(Aliased(temp, sat, keys, k - 1),
                 MessageTemplate(keys[k]), <<Alias(k - 1, NumLength(sat))>>)

\* Prerequisite.api_dump, lines 321-358: [exc, val, cache]
ApiDumpCall(sat, cond, cache, tps) ==
    IF Len(sat) = 0
    THEN [exc |-> "", val |-> None, cache |-> cache]
    ELSE LET keys == SortedKeys(sat)
             temp == IF cond # None
                     THEN StrExpressionList(cond[1])
                     ELSE MessageTemplate(sat[Len(sat)][1])
             conds == [i \in 1..Len(keys) |-> Condition(sat, keys[i], i - 1)]
             r == IsSatisfiedCall(sat, cond, cache)
         IN  IF r.exc # ""
             THEN [exc |-> r.exc, val |-> None, cache |-> r.cache]
             ELSE [exc |-> "",
                   val |-> [expression |-> Aliased(temp, sat, keys, Len(keys)),
                            satisfied |-> r.val,
                            conditions |-> conds,
                            cycle_points |-> tps],
                   cache |-> r.cache]

\* set_satisfied leaving every dependency's state as it is
ForceSatisfiedNone(sat) == sat

\* lines 366-368
ForceSatisfied(sat) ==
    [i \in 1..Len(sat) |->
        IF ~Bool(sat[i][2]) THEN <<sat[i][1], DEP_STATE_OVERRIDDEN>> ELSE sat[i]]


\* lines 369-372
SetSatisfiedResult(forced, cond) ==
    IF cond = None
    THEN Return(TRUE)
    ELSE ConditionalIsSatisfied(forced, cond)

\* lines 380-381
ForceUnsatisfied(sat) ==
    [i \in 1..Len(sat) |-> <<sat[i][1], DEP_STATE_UNSATISFIED>>]

\* set_not_satisfied without the test for an empty dict
SetNotSatisfiedResultNoEmpty(forced, cond) ==
    IF cond = None
    THEN Return(FALSE)
    ELSE ConditionalIsSatisfied(forced, cond)

\* lines 382-387
SetNotSatisfiedResult(forced, cond) ==
    IF Len(forced) = 0
    THEN Return(TRUE)
    ELSE IF cond = None
         THEN Return(FALSE)
         ELSE ConditionalIsSatisfied(forced, cond)

(***************************************************************************)
(* Inputs.                                                                 *)
(***************************************************************************)
Names == {"foo", "1"}
Outputs == {"succeeded", "failed"}
\* a cycle point object and the same point given as a str
PointInputs == {[kind |-> "PointBase", value |-> 1], [kind |-> "str", value |-> "1"]}
\* the cycle point of the task the prerequisite belongs to
ThePoint == [kind |-> "PointBase", value |-> 1]

\* every message a task of the workflow can give
Messages == {AddMessage(n, p, o) : n \in Names, p \in PointInputs, o \in Outputs}

OutputSets == {S \in SUBSET Messages : Cardinality(S) <= MaxOutputs}

TaskTrigger(name, output) ==
    [kind |-> "TaskTrigger", task_name |-> name, output |-> output]
OperatorItem(s) == [kind |-> "str", val |-> s]
ListItem(l) == [kind |-> "list", val |-> l]

\* the triggers expressions are written over, in the order they appear
Triggers == <<TaskTrigger("1", "succeeded"), TaskTrigger("1", "failed"),
              TaskTrigger("foo", "succeeded")>>

\* the (name, output) pairs add() registers: those of the triggers
Dependencies ==
    {<<Triggers[i].task_name, Triggers[i].output>> : i \in 1..Len(Triggers)}

\* the outputs the upstream tasks give in one pass of the main loop:
\* non-empty sets of the dependencies' messages at the task's own point
RaceOutputSets ==
    {s \in OutputSets :
        s # {} /\ \A m \in s : \E d \in Dependencies :
            m = AddMessage(d[1], ThePoint, d[2])}

\* the sub-sequences of a sequence that keep its order
SubSeqs(s) ==
    {[j \in 1..Cardinality(I) |->
        s[CHOOSE i \in I : Cardinality({h \in I : h < i}) = j - 1]] :
     I \in SUBSET (1..Len(s)) \ {{}}}

\* the well-formed nested lists whose operands are exactly the triggers ts,
\* in order, nested at most d deep
RECURSIVE RawLists(_, _)
RawLists(ts, d) ==
    UNION {
        LET firsts == IF k = 1
                      THEN {ts[1]}
                      ELSE IF d > 0
                           THEN {ListItem(l) : l \in RawLists(SubSeq(ts, 1, k), d - 1)}
                           ELSE {}
            rests == IF k = Len(ts)
                     THEN {<<>>}
                     ELSE {<<OperatorItem(o)>> \o r :
                           o \in OpMapKeys,
                           r \in RawLists(SubSeq(ts, k + 1, Len(ts)), d)}
        IN  {<<f>> \o r : f \in firsts, r \in rests}
        : k \in 1..Len(ts)}

\* the expressions evaluate is tried on: over any of the triggers
EvalExprInputs == UNION {RawLists(ts, MaxDepth) : ts \in SubSeqs(Triggers)}

\* the expressions given to set_condition: over some, not all, triggers
ExprInputs ==
    UNION {RawLists(ts, MaxDepth) :
           ts \in {t \in SubSeqs(Triggers) : Len(t) < Len(Triggers)}}

\* the ExpressionList objects built from them for the task's point
ExprObjects == {ExpressionList(e, ThePoint) : e \in ExprInputs}

\* the triggers of a nested list, and the keys add() registers for them
RECURSIVE TriggersOf(_)
TriggersOf(expr) ==
    UNION {IF expr[k].kind = "TaskTrigger" THEN {expr[k]}
           ELSE IF expr[k].kind = "list" THEN TriggersOf(expr[k].val)
           ELSE {} : k \in 1..Len(expr)}
RegisteredKeys(expr, point) ==
    {AddMessage(t.task_name, TaskTriggerGetPoint(t, point), t.output) :
     t \in TriggersOf(expr)}

(***************************************************************************)
(* The Prerequisite state machine.                                         *)
(***************************************************************************)
Call(op, arg, ret, exc) == [op |-> op, arg |-> arg, ret |-> ret, exc |-> exc]

\* no call in progress on the reporting path
\* (unknown: the call found no cached state)
NoReader ==
    [pc |-> "idle", op |-> "", val |-> FALSE, exc |-> "", unknown |-> FALSE]

\* no TriggerExpression under construction, no server object
NoFrame == [pc |-> "none"]
NoServer == [thread |-> "none"]

\* Prerequisite.__init__, lines 147-173
Init ==
    /\ satisfied = <<>>
    /\ all_satisfied = None
    /\ target_point_strings = <<>>
    /\ conditional_expression = None
    /\ last = Call("__init__", None, None, "")
    /\ arrived = {}
    /\ reader = NoReader
    /\ frame = NoFrame
    /\ server = NoServer

\* Prerequisite.add, lines 175-202
Add(name, point, output, pre_initial) ==
    LET message == AddMessage(name, point, output)
    IN  /\ message \in DictKeys(satisfied) \/ Len(satisfied) < MaxDeps
        /\ satisfied' = DictSet(satisfied, message, AddState(pre_initial))
        /\ all_satisfied' = AddCache(all_satisfied)
        /\ target_point_strings' = AddTargetPoints(target_point_strings, point)
        /\ UNCHANGED conditional_expression
        /\ last' = Call("add", <<message, pre_initial>>, None, "")

\* Prerequisite.set_condition, lines 223-256
SetCondition(expr) ==
    /\ expr.kind = "ExpressionList"
    /\ all_satisfied' = None
    /\ conditional_expression' =
           IF expr.is_conditional THEN Some(expr) ELSE conditional_expression
    /\ UNCHANGED <<satisfied, target_point_strings>>
    /\ last' = Call("set_condition", expr, None, "")

\* Prerequisite.is_satisfied, lines 258-275
IsSatisfied ==
    LET r == IsSatisfiedCall(satisfied, conditional_expression, all_satisfied)
    IN  /\ all_satisfied' = r.cache
        /\ UNCHANGED <<satisfied, target_point_strings, conditional_expression>>
        /\ last' = Call("is_satisfied", None, r.val, r.exc)

\* Prerequisite.satisfy_me, lines 306-319
SatisfyMeFirst(all_task_outputs, first) ==
    LET r == SatisfyMeCall(satisfied, conditional_expression,
                           all_satisfied, all_task_outputs, first)
    IN  /\ satisfied' = r.sat
        /\ all_satisfied' = r.cache
        /\ UNCHANGED <<target_point_strings, conditional_expression>>
        /\ last' = Call("satisfy_me", all_task_outputs, r.ret, r.exc)

SatisfyMe(all_task_outputs) ==
    \E first \in FirstMessages(satisfied, conditional_expression,
                                all_task_outputs) :
        SatisfyMeFirst(all_task_outputs, first)

\* Prerequisite.api_dump, lines 321-358
ApiDump ==
    LET r == ApiDumpCall(satisfied, conditional_expression, all_satisfied,
                         target_point_strings)
    IN  /\ all_satisfied' = r.cache
        /\ UNCHANGED <<satisfied, target_point_strings, conditional_expression>>
        /\ last' = Call("api_dump", None, r.val, r.exc)

\* Prerequisite.get_resolved_dependencies, lines 394-402
GetResolvedDependencies ==
    /\ last' = Call("get_resolved_dependencies", None,
                    ResolvedDependencies(satisfied), "")
    /\ UNCHANGED <<satisfied, all_satisfied, target_point_strings,
                   conditional_expression>>

\* Prerequisite.set_satisfied, lines 360-372
SetSatisfied ==
    LET forced == ForceSatisfied(satisfied)
        r == SetSatisfiedResult(forced, conditional_expression)
    IN  /\ satisfied' = forced
        /\ all_satisfied' = IF r.exc = "" THEN Some(r.val) ELSE all_satisfied
        /\ UNCHANGED <<target_point_strings, conditional_expression>>
        /\ last' = Call("set_satisfied", None, None, r.exc)

\* Prerequisite.set_not_satisfied, lines 374-387
SetNotSatisfied ==
    LET forced == ForceUnsatisfied(satisfied)
        r == SetNotSatisfiedResult(forced, conditional_expression)
    IN  /\ satisfied' = forced
        /\ all_satisfied' = IF r.exc = "" THEN Some(r.val) ELSE all_satisfied
        /\ UNCHANGED <<target_point_strings, conditional_expression>>
        /\ last' = Call("set_not_satisfied", None, None, r.exc)

\* the calls a caller can make on one Prerequisite
CallAdd ==
    \E d \in Dependencies, p \in PointInputs, b \in BOOLEAN :
        Add(d[1], p, d[2], b) /\ UNCHANGED <<arrived, reader, frame, server>>
CallSetCondition ==
    \E expr \in ExprObjects : SetCondition(expr) /\ UNCHANGED <<arrived, reader, frame, server>>
CallIsSatisfied == IsSatisfied /\ UNCHANGED <<arrived, reader, frame, server>>
CallSatisfyMe == \E s \in OutputSets : SatisfyMe(s) /\ UNCHANGED <<arrived, reader, frame, server>>
CallSetSatisfied == SetSatisfied /\ UNCHANGED <<arrived, reader, frame, server>>
CallSetNotSatisfied == SetNotSatisfied /\ UNCHANGED <<arrived, reader, frame, server>>
CallApiDump == ApiDump /\ UNCHANGED <<arrived, reader, frame, server>>

Next ==
    \/ CallAdd
    \/ CallSetCondition
    \/ CallIsSatisfied
    \/ CallSatisfyMe
    \/ CallSetSatisfied
    \/ CallSetNotSatisfied
    \/ CallApiDump

Spec == Init /\ [][Next]_vars

(***************************************************************************)
(* ExpressionList.evaluate as a function: any expression over the          *)
(* triggers, evaluated under any state of its leaves.                      *)
(***************************************************************************)
\* the dicts holding every leaf of the triggers, in every state
EvalDicts ==
    LET keys == [j \in 1..Len(Triggers) |-> LeafMessage(Triggers[j], ThePoint)]
        states == {DEP_STATE_UNSATISFIED, DEP_STATE_SATISFIED, DEP_STATE_OVERRIDDEN}
    IN  {[j \in 1..Len(keys) |-> <<keys[j], v[j]>>] :
         v \in [1..Len(keys) -> states]}

EvalInit ==
    /\ satisfied \in EvalDicts
    /\ conditional_expression \in
           {Some(ExpressionList(e, ThePoint)) : e \in EvalExprInputs}
    /\ all_satisfied = None
    /\ target_point_strings = <<>>
    /\ last = Call("ExpressionList", None, None, "")
    /\ arrived = {}
    /\ reader = NoReader
    /\ frame = NoFrame
    /\ server = NoServer

CallEvaluate ==
    LET r == Evaluate(conditional_expression[1], satisfied)
    IN  /\ last' = Call("evaluate", None, r.val, r.exc)
        /\ UNCHANGED <<satisfied, all_satisfied, target_point_strings,
                       conditional_expression, arrived, reader, frame, server>>

EvalNext == CallEvaluate

EvalSpec == EvalInit /\ [][EvalNext]_vars

(***************************************************************************)
(* Arrivals: dependencies registered with pre_initial=False, then only     *)
(* satisfy_me and is_satisfied calls; arrived records what satisfy_me was  *)
(* given.                                                                  *)
(***************************************************************************)
ArriveAdd ==
    \E d \in Dependencies, p \in PointInputs :
        /\ Add(d[1], p, d[2], FALSE)
        /\ arrived' = arrived \ {AddMessage(d[1], p, d[2])}
        /\ UNCHANGED <<reader, frame, server>>
ArriveSatisfyMe ==
    \E s \in OutputSets :
        SatisfyMe(s) /\ arrived' = arrived \cup s /\ UNCHANGED <<reader, frame, server>>
ArriveIsSatisfied == IsSatisfied /\ UNCHANGED <<arrived, reader, frame, server>>

ArriveNext ==
    \/ ArriveAdd
    \/ ArriveSatisfyMe
    \/ ArriveIsSatisfied

ArriveSpec == Init /\ [][ArriveNext]_vars

(***************************************************************************)
(* Resolved dependencies: on a prerequisite with no expression attached,   *)
(* every call that changes a dependency's state, and                       *)
(* get_resolved_dependencies; arrived records, for each dependency, the    *)
(* calls that made it satisfied since it was last Unsatisfied, as pairs    *)
(* <<message, "satisfy_me" | "pre_initial" | "set_satisfied">>.            *)
(***************************************************************************)
HistoryOf(message) == {h \in arrived : h[1] = message}

ResolveAdd ==
    \E d \in Dependencies, p \in PointInputs, b \in BOOLEAN :
        /\ Add(d[1], p, d[2], b)
        /\ UNCHANGED <<reader, frame, server>>
        /\ arrived' = (arrived \ HistoryOf(AddMessage(d[1], p, d[2])))
                \cup (IF b THEN {<<AddMessage(d[1], p, d[2]), "pre_initial">>}
                           ELSE {})
ResolveSatisfyMe ==
    \E s \in OutputSets :
        /\ SatisfyMe(s)
        /\ UNCHANGED <<reader, frame, server>>
        /\ arrived' = arrived \cup
               {<<m, "satisfy_me">> : m \in s \cap DictKeys(satisfied)}
ResolveSetSatisfied ==
    /\ SetSatisfied
    /\ UNCHANGED <<reader, frame, server>>
    /\ arrived' = arrived \cup
           {<<m, "set_satisfied">> :
            m \in {k \in DictKeys(satisfied) : HistoryOf(k) = {}}}
ResolveSetNotSatisfied ==
    SetNotSatisfied /\ arrived' = {} /\ UNCHANGED <<reader, frame, server>>
ResolveGetResolvedDependencies == GetResolvedDependencies /\ UNCHANGED <<arrived, reader, frame, server>>

ResolveNext ==
    \/ ResolveAdd
    \/ ResolveSatisfyMe
    \/ ResolveSetSatisfied
    \/ ResolveSetNotSatisfied
    \/ ResolveGetResolvedDependencies

ResolveSpec == Init /\ [][ResolveNext]_vars

(***************************************************************************)
(* Arrivals after a report: any dependencies and expression, then          *)
(* satisfy_me, is_satisfied and api_dump calls.  arrived records, since    *)
(* the last add, set_condition or set_not_satisfied call, the dependencies *)
(* that have been truthy, as <<"truthy", message>>, and whether            *)
(* is_satisfied() has returned True, as <<"returned True", None>>.         *)
(***************************************************************************)
\* the dependencies that are truthy in a dict
Truthy(sat) ==
    {<<"truthy", sat[i][1]>> : i \in {j \in 1..Len(sat) : Bool(sat[j][2])}}
ReturnedTrue == <<"returned True", None>>

MonoAdd ==
    /\ \E d \in Dependencies, b \in BOOLEAN : Add(d[1], ThePoint, d[2], b)
    /\ arrived' = Truthy(satisfied')
    /\ UNCHANGED <<reader, frame, server>>
MonoSetCondition ==
    /\ \E expr \in ExprObjects : SetCondition(expr)
    /\ arrived' = Truthy(satisfied')
    /\ UNCHANGED <<reader, frame, server>>
MonoSetNotSatisfied ==
    /\ SetNotSatisfied
    /\ arrived' = Truthy(satisfied')
    /\ UNCHANGED <<reader, frame, server>>
MonoSatisfyMe ==
    /\ \E s \in OutputSets : SatisfyMe(s)
    /\ arrived' = arrived \cup Truthy(satisfied')
    /\ UNCHANGED <<reader, frame, server>>
MonoIsSatisfied ==
    /\ IsSatisfied
    /\ arrived' = arrived \cup Truthy(satisfied')
                    \cup (IF last'.exc = "" /\ last'.ret = TRUE
                          THEN {ReturnedTrue} ELSE {})
    /\ UNCHANGED <<reader, frame, server>>
MonoApiDump ==
    /\ ApiDump
    /\ arrived' = arrived \cup Truthy(satisfied')
    /\ UNCHANGED <<reader, frame, server>>

MonoNext ==
    \/ MonoAdd
    \/ MonoSetCondition
    \/ MonoSetNotSatisfied
    \/ MonoSatisfyMe
    \/ MonoIsSatisfied
    \/ MonoApiDump

MonoSpec == Init /\ [][MonoNext]_vars

(***************************************************************************)
(* Delivery: the dependencies and the expression are set up, then the      *)
(* scheduler's main loop calls satisfy_me with the outputs the upstream    *)
(* tasks give, and is_satisfied.  No add or set_condition call follows the *)
(* first satisfy_me call.  arrived records the messages given to           *)
(* satisfy_me.  A Prerequisite is a passive object: whether every          *)
(* dependency is delivered in the end is up to its caller, and is the      *)
(* hypothesis of the property stated over this specification.              *)
(***************************************************************************)
\* the expressions 'a & b' and 'a | b' over two of the triggers
LiveExprObjects ==
    {ExpressionList(<<Triggers[i], OperatorItem(o), Triggers[j]>>, ThePoint) :
     i \in 1..Len(Triggers), j \in 1..Len(Triggers), o \in OpMapKeys}
        \ {ExpressionList(<<Triggers[i], OperatorItem(o), Triggers[i]>>, ThePoint) :
            i \in 1..Len(Triggers), o \in OpMapKeys}

LiveAdd ==
    /\ arrived = {}
    /\ \E d \in Dependencies, b \in BOOLEAN : Add(d[1], ThePoint, d[2], b)
    /\ UNCHANGED <<arrived, reader, frame, server>>
LiveSetCondition ==
    /\ arrived = {}
    /\ \E expr \in LiveExprObjects : SetCondition(expr)
    /\ UNCHANGED <<arrived, reader, frame, server>>
LiveSatisfyMe ==
    \E s \in RaceOutputSets :
        SatisfyMe(s) /\ arrived' = arrived \cup s /\ UNCHANGED <<reader, frame, server>>
LiveIsSatisfied == IsSatisfied /\ UNCHANGED <<arrived, reader, frame, server>>

LiveNext ==
    \/ LiveAdd
    \/ LiveSetCondition
    \/ LiveSatisfyMe
    \/ LiveIsSatisfied

LiveSpec == Init /\ [][LiveNext]_vars

(***************************************************************************)
(* Target points: add called with every kind of point it accepts           *)
(* (Union[PointBase, str]): cycle point objects, their strings, and the    *)
(* empty string.                                                           *)
(***************************************************************************)
PointValues ==
    PointInputs \cup {[kind |-> "PointBase", value |-> 2],
                      [kind |-> "str", value |-> "2"],
                      [kind |-> "str", value |-> ""]}

PointAdd ==
    /\ \E d \in Dependencies, p \in PointValues, b \in BOOLEAN :
           Add(d[1], p, d[2], b)
    /\ UNCHANGED <<arrived, reader, frame, server>>

\* Prerequisite.get_target_points, lines 389-392: one point for each stored
\* string, in the order of the list; a point is recorded by the string it
\* is parsed from
PointGetTargetPoints ==
    /\ last' = Call("get_target_points", None, target_point_strings, "")
    /\ UNCHANGED <<satisfied, all_satisfied, target_point_strings,
                   conditional_expression, arrived, reader, frame, server>>

PointNext ==
    \/ PointAdd
    \/ PointGetTargetPoints

PointSpec == Init /\ [][PointNext]_vars

(***************************************************************************)
(* The reporting path against the owner.  A second thread calls            *)
(* is_satisfied() or api_dump() while the owner of the prerequisite calls  *)
(* satisfy_me, set_satisfied or set_not_satisfied; the threads can switch  *)
(* between any two bytecodes, so the reader's call is the three steps that *)
(* touch shared state: it reads the cache (line 264), evaluates the        *)
(* dependency states (lines 267-274) and writes the cache (lines 271 or    *)
(* 274).  The owner's calls are taken whole, which are some of the         *)
(* interleavings the threads have.  Dependencies and the expression are    *)
(* set up before the first report, which finds no cached state; the        *)
(* owner's calls are followed from that report on.                         *)
(***************************************************************************)
\* the reader enters is_satisfied (api_dump after `if not self.satisfied`,
\* the dump of the conditions, which writes nothing, and then
\* is_satisfied, line 354) and reads the cache, lines 264-265
ReaderStart(op) ==
    /\ reader.pc \in {"idle", "done"}
    /\ reader' =
           IF op = "api_dump" /\ Len(satisfied) = 0
           THEN [pc |-> "done", op |-> op, val |-> FALSE, exc |-> "",
                 unknown |-> FALSE]
           ELSE IF all_satisfied # None
           THEN [pc |-> "done", op |-> op, val |-> all_satisfied[1], exc |-> "",
                 unknown |-> FALSE]
           ELSE [pc |-> "evaluate", op |-> op, val |-> FALSE, exc |-> "",
                 unknown |-> TRUE]
    /\ UNCHANGED <<satisfied, all_satisfied, target_point_strings,
                   conditional_expression, last, arrived, frame, server>>

\* lines 267-274, the right-hand sides: the evaluation of the states as
\* they are now
ReaderEvaluate ==
    /\ reader.pc = "evaluate"
    /\ reader' =
           IF Len(satisfied) = 0
           THEN [reader EXCEPT !.pc = "done", !.val = TRUE]
           ELSE LET r == IF conditional_expression # None
                         THEN ConditionalIsSatisfied(satisfied,
                                                     conditional_expression)
                         ELSE Return(AllValues(satisfied))
                IN  IF r.exc # ""
                    THEN [reader EXCEPT !.pc = "done", !.exc = r.exc]
                    ELSE [reader EXCEPT !.pc = "write", !.val = r.val]
    /\ UNCHANGED <<satisfied, all_satisfied, target_point_strings,
                   conditional_expression, last, arrived, frame, server>>

\* lines 271 or 274, the assignment, and the return of line 275
ReaderWrite ==
    /\ reader.pc = "write"
    /\ all_satisfied' = Some(reader.val)
    /\ reader' = [reader EXCEPT !.pc = "done"]
    /\ UNCHANGED <<satisfied, target_point_strings, conditional_expression,
                   last, arrived, frame, server>>

RaceAdd ==
    /\ reader.pc = "idle"
    /\ \E d \in Dependencies, b \in BOOLEAN : Add(d[1], ThePoint, d[2], b)
    /\ UNCHANGED <<arrived, reader, frame, server>>
RaceSetCondition ==
    /\ reader.pc = "idle"
    /\ \E expr \in ExprObjects : SetCondition(expr)
    /\ UNCHANGED <<arrived, reader, frame, server>>
RaceSatisfyMe ==
    /\ reader.pc # "idle"
    /\ \E s \in RaceOutputSets : SatisfyMe(s)
    /\ UNCHANGED <<arrived, reader, frame, server>>
RaceSetSatisfied ==
    reader.pc # "idle" /\ SetSatisfied /\ UNCHANGED <<arrived, reader, frame, server>>
RaceSetNotSatisfied ==
    reader.pc # "idle" /\ SetNotSatisfied /\ UNCHANGED <<arrived, reader, frame, server>>
RaceReaderStart == \E op \in {"is_satisfied", "api_dump"} : ReaderStart(op)

RaceNext ==
    \/ RaceAdd
    \/ RaceSetCondition
    \/ RaceSatisfyMe
    \/ RaceSetSatisfied
    \/ RaceSetNotSatisfied
    \/ RaceReaderStart
    \/ ReaderEvaluate
    \/ ReaderWrite

RaceSpec == Init /\ [][RaceNext]_vars

(***************************************************************************)
(* cylc/flow/trigger_expression.py: listify_str_expression.  A text is a   *)
(* sequence of one-character strings; the items the text is split into     *)
(* are strings.  The stack of the parser holds ret and then, for each open *)
(* group, the list that is the last element of the list below it, so the   *)
(* stack is modelled by its length and the list on top is found by         *)
(* following last elements from ret.                                       *)
(***************************************************************************)
\* characters in a text
MaxText == 5

Chars == {"(", ")", "&", "|", "a", " "}
Texts == UNION {[1..n -> Chars] : n \in 0..MaxText}

\* line 68: expr.replace("'", "\"")
ReplaceQuotes(text) ==
    [i \in 1..Len(text) |-> IF text[i] = "'" THEN "\"" ELSE text[i]]

\* line 29: the characters REC_CONDITIONALS matches
IsDelimiter(c) == c \in {"&", "|", "(", ")"}

\* str.strip() of a piece, and the piece as one string
Strip(piece) ==
    LET inked == {i \in 1..Len(piece) : piece[i] # " "}
    IN  IF inked = {}
        THEN <<>>
        ELSE SubSeq(piece,
                    CHOOSE i \in inked : \A j \in inked : i <= j,
                    CHOOSE i \in inked : \A j \in inked : j <= i)
RECURSIVE Join(_)
Join(piece) == IF piece = <<>> THEN "" ELSE Head(piece) \o Join(Tail(piece))

\* line 72-73: REC_CONDITIONALS.split(expr) gives the pieces between the
\* delimiters and, the pattern being one group, the delimiters themselves;
\* each is stripped
RECURSIVE SplitItems(_, _)
SplitItems(text, piece) ==
    IF text = <<>>
    THEN <<Join(Strip(piece))>>
    ELSE IF IsDelimiter(Head(text))
         THEN <<Join(Strip(piece)), Head(text)>> \o SplitItems(Tail(text), <<>>)
         ELSE SplitItems(Tail(text), Append(piece, Head(text)))

\* stack[-1].append(x), the stack being n long
RECURSIVE AppendTop(_, _, _)
AppendTop(l, n, x) ==
    IF n = 1
    THEN Append(l, x)
    ELSE [l EXCEPT ![Len(l)] = ListItem(AppendTop(l[Len(l)].val, n - 1, x))]

\* the end of a group without the replacement of lines 83-84
CollapseTopKeep(l, n) == l

\* lines 83-84: a list of one element that ends stack[-1] is replaced by
\* its element (stack[-1] ends with the list that was just popped)
RECURSIVE CollapseTop(_, _)
CollapseTop(l, n) ==
    IF n = 1
    THEN IF l[Len(l)].kind = "list" /\ Len(l[Len(l)].val) = 1
         THEN [l EXCEPT ![Len(l)] = l[Len(l)].val[1]]
         ELSE l
    ELSE [l EXCEPT ![Len(l)] = ListItem(CollapseTop(l[Len(l)].val, n - 1))]

\* the end of the parse without the test for groups left open
ListifyEndUnchecked(ret, n) == Return(ret)

\* lines 85-87
ListifyEnd(ret, n) == IF n > 1 THEN Raise("ValueError") ELSE Return(ret)

\* the loop of lines 72-84 from item i on; n is len(stack)
RECURSIVE ListifyLoop(_, _, _, _)
ListifyLoop(items, i, ret, n) ==
    IF i > Len(items)
    THEN ListifyEnd(ret, n)
    ELSE LET item == items[i]
         IN  IF item # "" /\ item \notin {"(", ")"}
             THEN ListifyLoop(items, i + 1,
                              AppendTop(ret, n, OperatorItem(item)), n)
             ELSE IF item = "("
             THEN ListifyLoop(items, i + 1,
                              AppendTop(ret, n, ListItem(<<>>)), n + 1)
             ELSE IF item = ")"
             THEN IF n - 1 = 0
                  THEN Raise("ValueError")
                  ELSE ListifyLoop(items, i + 1, CollapseTop(ret, n - 1), n - 1)
             ELSE ListifyLoop(items, i + 1, ret, n)

\* listify_str_expression, lines 37-87
ListifyStrExpression(text) ==
    ListifyLoop(SplitItems(ReplaceQuotes(text), <<>>), 1, <<>>, 1)

\* the function applied to every text
ParseInit ==
    /\ satisfied = <<>>
    /\ all_satisfied = None
    /\ target_point_strings = <<>>
    /\ conditional_expression = None
    /\ arrived = {}
    /\ reader = NoReader
    /\ frame = NoFrame
    /\ server = NoServer
    /\ \E text \in Texts : last = Call("str", text, None, "")

CallListify ==
    /\ last.op = "str"
    /\ LET r == ListifyStrExpression(last.arg)
       IN  last' = Call("listify_str_expression", last.arg, r.val, r.exc)
    /\ UNCHANGED <<satisfied, all_satisfied, target_point_strings,
                   conditional_expression, arrived, reader, frame, server>>

ParseNext == CallListify

ParseSpec == ParseInit /\ [][ParseNext]_vars

(***************************************************************************)
(* cylc/flow/network/server.py: WorkflowRuntimeServer.receiver.  A Python  *)
(* value of a message is a record [type, value, items]: a str, an int,     *)
(* None and a list carry a string as value, a dict carries its items as a  *)
(* sequence of <<key, value>> pairs.                                       *)
(***************************************************************************)
PyStr(s) == [type |-> "str", value |-> s, items |-> <<>>]
PyInt(s) == [type |-> "int", value |-> s, items |-> <<>>]
PyNone == [type |-> "NoneType", value |-> "None", items |-> <<>>]
PyList == [type |-> "list", value |-> "[]", items |-> <<>>]
PyDict(items) == [type |-> "dict", value |-> "", items |-> items]

\* ResponseTuple(content=None, err=None) and ResponseErrTuple(message)
ResponseTuple(content, err) == [content |-> content, err |-> err]
ResponseErrTuple(message) == [message |-> message]

\* the values of the 'command' and the 'args' field, None for no field
Commands ==
    {None, Some(PyStr("api")), Some(PyStr("stop")), Some(PyStr("port")),
     Some(PyStr("foobar")), Some(PyInt("5")), Some(PyNone)}
ArgsValues ==
    {None, Some(PyDict(<<>>)), Some(PyDict(<<<<"endpoint", PyStr("api")>>>>)),
     Some(PyList), Some(PyNone)}
MetaValues == {None, Some(PyStr("meta"))}

\* the dict with the fields that are given
MessageDict(command, args, meta) ==
    PyDict((IF command = None THEN <<>> ELSE <<<<"command", command[1]>>>>)
           \o (IF args = None THEN <<>> ELSE <<<<"args", args[1]>>>>)
           \o (IF meta = None THEN <<>> ELSE <<<<"meta", meta[1]>>>>))

\* the messages receiver is given: dicts, and values that are not dicts
ServerMessages ==
    {MessageDict(c, a, m) : c \in Commands, a \in ArgsValues, m \in MetaValues}
        \cup {PyStr("api"), PyList, PyNone}

\* what a method of the server does when it is called with keyword
\* arguments it accepts
MethodOutcomes == {"returns", "raises"}

\* an attribute of the server: whether it can be called, the keywords it
\* takes (params; any keyword with **kwargs), those it must be given
\* (required) and whether expose() marked it, lines 56-59
Attribute(name, callable, params, required, kwargs, exposed) ==
    [name |-> name, callable |-> callable, params |-> params,
     required |-> required, kwargs |-> kwargs, exposed |-> exposed]

\* getattr(self, name), line 282: the attributes of the server (api, lines
\* 317-323; stop, 213; operate, 238; start, 162; receiver, 260-262; port,
\* 135)
GetAttr(name) ==
    IF name.type # "str"
    THEN Raise("TypeError")
    ELSE IF name.value = "api"
    THEN Return(Attribute("api", TRUE, {"endpoint"}, {}, TRUE, TRUE))
    ELSE IF name.value = "stop"
    THEN Return(Attribute("stop", TRUE, {"reason"}, {"reason"}, FALSE, FALSE))
    ELSE IF name.value = "operate"
    THEN Return(Attribute("operate", TRUE, {}, {}, FALSE, FALSE))
    ELSE IF name.value = "start"
    THEN Return(Attribute("start", TRUE, {"barrier"}, {"barrier"}, FALSE, FALSE))
    ELSE IF name.value = "receiver"
    THEN Return(Attribute("receiver", TRUE, {"message", "user"},
                          {"message", "user"}, FALSE, FALSE))
    ELSE IF name.value = "port"
    THEN Return(Attribute("port", FALSE, {}, {}, FALSE, FALSE))
    ELSE Raise("AttributeError")

\* message[key]
GetItem(message, key) ==
    IF key \in DictKeys(message.items)
    THEN Return(DictGet(message.items, key))
    ELSE Raise("KeyError")

\* lines 281-286: the method and the arguments of the call
Dispatch(message, user) ==
    LET command == GetItem(message, "command")
        method == GetAttr(command.val)
        args == GetItem(message, "args")
        with_user == DictSet(args.val.items, "user", PyStr(user))
        with_meta == IF "meta" \in DictKeys(message.items)
                     THEN DictSet(with_user, "meta",
                                  GetItem(message, "meta").val)
                     ELSE with_user
    IN  IF command.exc # "" THEN Raise(command.exc)
        ELSE IF method.exc # "" THEN Raise(method.exc)
        ELSE IF args.exc # "" THEN Raise(args.exc)
        ELSE IF args.val.type # "dict" THEN Raise("AttributeError")
        ELSE Return([method |-> method.val, args |-> with_meta])

\* lines 287-297: the exceptions of the dispatch that are handled
Handled(exc) ==
    IF exc = "KeyError"
    THEN Return(ResponseTuple(None,
            Some(ResponseErrTuple("Request missing required field(s)."))))
    ELSE IF exc = "AttributeError"
    THEN Return(ResponseTuple(None,
            Some(ResponseErrTuple("No method by the name"))))
    ELSE Raise(exc)

\* method(**args) enters the method: it is callable, takes every keyword
\* given ('user' is always passed) and is given every keyword it requires
Binds(method, args) ==
    /\ method.callable
    /\ method.kwargs \/ DictKeys(args) \subseteq method.params
    /\ method.required \subseteq DictKeys(args)

RECURSIVE Receiver(_, _, _)

\* method(**args), line 300: a call that does not enter the method is a
\* TypeError; receiver, called as a method, does what receiver does
CallMethod(method, args, outcome) ==
    IF ~ Binds(method, args)
    THEN Raise("TypeError")
    ELSE IF method.name = "receiver"
    THEN Receiver(DictGet(args, "message"), DictGet(args, "user").value,
                  outcome)
    ELSE IF outcome = "raises"
    THEN Raise("Exception")
    ELSE Return("response")

\* WorkflowRuntimeServer.receiver, lines 260-309
Receiver(message, user, outcome) ==
    IF message.type # "dict"
    THEN Return(ResponseTuple(None,
            Some(ResponseErrTuple("Expected dict but request is"))))
    ELSE LET d == Dispatch(message, user)
             response == CallMethod(d.val.method, d.val.args, outcome)
         IN  IF d.exc # ""
             THEN Handled(d.exc)
             ELSE IF response.exc # ""
             THEN Return(ResponseTuple(None,
                     Some(ResponseErrTuple(response.exc))))
             ELSE Return(ResponseTuple(Some(response.val), None))

\* a message arrives; the method, if one is called, returns or raises
ReceiverInit ==
    /\ satisfied = <<>>
    /\ all_satisfied = None
    /\ target_point_strings = <<>>
    /\ conditional_expression = None
    /\ arrived = {}
    /\ reader = NoReader
    /\ frame = NoFrame
    /\ server = NoServer
    /\ \E message \in ServerMessages, outcome \in MethodOutcomes :
           last = Call("message", <<message, outcome>>, None, "")

CallReceiver ==
    /\ last.op = "message"
    /\ LET r == Receiver(last.arg[1], "user", last.arg[2])
       IN  last' = Call("receiver", last.arg, r.val, r.exc)
    /\ UNCHANGED <<satisfied, all_satisfied, target_point_strings,
                   conditional_expression, arrived, reader, frame, server>>

ReceiverNext == CallReceiver

ReceiverSpec == ReceiverInit /\ [][ReceiverNext]_vars

(***************************************************************************)
(* Properties.                                                             *)
(***************************************************************************)
\* the connective an operator string stands for
Connective(s, x, y) == IF s = "&" THEN x /\ y ELSE x \/ y

\* the truth value of a trigger's leaf under the current states
LeafTruth(trig) == Bool(DictGet(satisfied, LeafMessage(trig, ThePoint)))

IsFlat(e) == \A k \in 1..Len(e) : e[k].kind # "list"

\* C1: evaluate folds strictly left to right, with no precedence: the flat
\* list [a, o1, b, o2, c] evaluates to (a o1 b) o2 c for every state of the
\* leaves, so [a & b | c] is (a AND b) OR c and [a | b & c] is (a OR b) AND c;
\* grouping differs only where the list is nested: [a, o1, [b, o2, c]]
\* evaluates to a o1 (b o2 c).
C1_LeftToRightFold ==
    last.op = "evaluate" =>
        LET e == conditional_expression[1].orig_list
        IN  /\ (Len(e) = 5 /\ IsFlat(e)) =>
                   /\ last.exc = ""
                   /\ last.ret =
                        Connective(e[4].val,
                            Connective(e[2].val, LeafTruth(e[1]), LeafTruth(e[3])),
                            LeafTruth(e[5]))
            /\ (Len(e) = 3 /\ e[1].kind = "TaskTrigger" /\ e[3].kind = "list"
                    /\ Len(e[3].val) = 3 /\ IsFlat(e[3].val)) =>
                   /\ last.exc = ""
                   /\ last.ret =
                        Connective(e[2].val, LeafTruth(e[1]),
                            Connective(e[3].val[2].val,
                                LeafTruth(e[3].val[1]), LeafTruth(e[3].val[3])))

\* [a | b & c] evaluated with a true and c false: false, where AND binding
\* tighter would give true
C1_Witness ==
    /\ last.op = "evaluate"
    /\ Len(conditional_expression[1].orig_list) = 5
    /\ IsFlat(conditional_expression[1].orig_list)
    /\ conditional_expression[1].orig_list[2].val = "|"
    /\ conditional_expression[1].orig_list[4].val = "&"
    /\ LeafTruth(conditional_expression[1].orig_list[1])
    /\ ~LeafTruth(conditional_expression[1].orig_list[5])
    /\ last.ret = FALSE

\* a fresh evaluation of the prerequisite: True without dependencies, the
\* attached tree's evaluation if there is one, else the AND of all states
FreshEvaluation ==
    IF Len(satisfied) = 0
    THEN Return(TRUE)
    ELSE IF conditional_expression # None
         THEN Evaluate(conditional_expression[1], satisfied)
         ELSE Return(\A i \in 1..Len(satisfied) : Bool(satisfied[i][2]))

\* C2: whenever the cache holds True or False it equals a fresh evaluation
\* of the prerequisite, so is_satisfied() returns the fresh value.
C2_CacheIsFresh ==
    /\ all_satisfied # None =>
           FreshEvaluation.exc = "" /\ all_satisfied[1] = FreshEvaluation.val
    /\ (last.op = "is_satisfied" /\ last.exc = "") =>
           FreshEvaluation.exc = "" /\ last.ret = FreshEvaluation.val

\* C3: a cached True is never stale: if the cache is True then every
\* dependency's state is truthy or the attached tree evaluates to true.
C3_NoStaleTrue ==
    all_satisfied = Some(TRUE) =>
        \/ \A i \in 1..Len(satisfied) : Bool(satisfied[i][2])
        \/ /\ conditional_expression # None
           /\ Evaluate(conditional_expression[1], satisfied) = Return(TRUE)

\* a cached True held by the tree alone, some dependency being unsatisfied
C3_Witness ==
    /\ all_satisfied = Some(TRUE)
    /\ conditional_expression # None
    /\ \E i \in 1..Len(satisfied) : ~Bool(satisfied[i][2])

\* C4: a prerequisite without dependencies is satisfied in every state:
\* is_satisfied() returns True, and has returned True if it was the last
\* call.
C4_EmptyIsSatisfied ==
    Len(satisfied) = 0 =>
        /\ IsSatisfiedCall(satisfied, conditional_expression, all_satisfied).exc = ""
        /\ IsSatisfiedCall(satisfied, conditional_expression, all_satisfied).val = TRUE
        /\ last.op = "is_satisfied" => (last.exc = "" /\ last.ret = TRUE)

\* is_satisfied() called on an empty prerequisite that holds a cached state
\* and a conditional expression
C4_Witness ==
    /\ Len(satisfied) = 0
    /\ conditional_expression # None
    /\ all_satisfied # None
    /\ last.op = "is_satisfied"

\* C5: after set_condition(E), for an expression E whose leaves are exactly
\* the registered dependencies, a fresh is_satisfied() returns what
\* E.evaluate returns under the current dependency states, whether E was
\* attached or the prerequisite was left as the AND of its dependencies.
C5_ConditionEquivalence ==
    (/\ last.op = "set_condition"
     /\ DictKeys(satisfied) = RegisteredKeys(last.arg.orig_list, ThePoint)) =>
        LET f == IsSatisfiedCall(satisfied, conditional_expression, all_satisfied)
            e == Evaluate(last.arg, satisfied)
        IN  f.exc = "" /\ e.exc = "" /\ f.val = e.val

\* the OR operator occurs in a nested list or in one nested inside it
RECURSIVE HasOr(_)
HasOr(expr) ==
    \E k \in 1..Len(expr) :
        \/ expr[k].kind = "str" /\ expr[k].val = "|"
        \/ expr[k].kind = "list" /\ HasOr(expr[k].val)

\* C6: an expression tree's is_conditional flag is true if and only if the
\* OR operator occurs in its own operators or in those of a nested
\* descendant.
C6_ConditionalIffOr ==
    conditional_expression # None =>
        (conditional_expression[1].is_conditional
            <=> HasOr(conditional_expression[1].orig_list))

\* C7: for an AND-only prerequisite with at least one dependency, all added
\* with pre_initial=False, after any satisfy_me and is_satisfied calls
\* is_satisfied() returns true if and only if every dependency has been
\* given to some satisfy_me call.
C7_SatisfiedIffAllArrived ==
    Len(satisfied) >= 1 =>
        LET r == IsSatisfiedCall(satisfied, conditional_expression, all_satisfied)
        IN  /\ r.exc = ""
            /\ r.val <=> DictKeys(satisfied) \subseteq arrived
            /\ last.op = "is_satisfied" => (last.exc = "" /\ last.ret = r.val)

\* is_satisfied() returns true on two dependencies
C7_Witness ==
    /\ Len(satisfied) >= 2
    /\ last.op = "is_satisfied"
    /\ last.ret = TRUE

\* C8: with dependencies x and y registered and the tree of 'x | y' over the
\* same triggers attached, is_satisfied() returns false while both are
\* unsatisfied, and returns true after a satisfy_me call with one of them.
C8_OrOfTwo ==
    \A j, k \in 1..Len(Triggers) :
        (/\ j # k
         /\ DictKeys(satisfied) =
                RegisteredKeys(<<Triggers[j], Triggers[k]>>, ThePoint)
         /\ conditional_expression =
                Some(ExpressionList(
                    <<Triggers[j], OperatorItem("|"), Triggers[k]>>, ThePoint))) =>
            /\ (/\ last.op = "is_satisfied"
                /\ \A i \in 1..Len(satisfied) : ~Bool(satisfied[i][2])) =>
                   (last.exc = "" /\ last.ret = FALSE)
            /\ (/\ last.op = "satisfy_me"
                /\ Cardinality(last.arg \cap DictKeys(satisfied)) = 1) =>
                   /\ last.exc = ""
                   /\ IsSatisfiedCall(satisfied, conditional_expression,
                                      all_satisfied).exc = ""
                   /\ IsSatisfiedCall(satisfied, conditional_expression,
                                      all_satisfied).val = TRUE

\* the attached expression, if any, was built from triggers that are all
\* registered as dependencies
TreeOverDependencies ==
    \/ conditional_expression = None
    \/ RegisteredKeys(conditional_expression[1].orig_list, ThePoint)
           \subseteq DictKeys(satisfied)

\* C9: satisfy_me(outputs) returns the intersection of outputs with the
\* dependency keys, sets every dependency of the intersection to 'satisfied
\* naturally' and leaves every other dependency's state unchanged (stated
\* for the prerequisites whose expression is over registered dependencies).
C9_SatisfyMeEffect ==
    [][(TreeOverDependencies /\ last'.op = "satisfy_me") =>
        /\ last'.exc = ""
        /\ last'.ret = last'.arg \cap DictKeys(satisfied)
        /\ Len(satisfied') = Len(satisfied)
        /\ \A i \in 1..Len(satisfied) :
               satisfied'[i] =
                   IF satisfied[i][1] \in last'.arg
                   THEN <<satisfied[i][1], DEP_STATE_SATISFIED>>
                   ELSE satisfied[i]]_vars

\* C10: satisfy_me with outputs that match no dependency raises nothing,
\* returns the empty set and leaves the prerequisite as it was: dependency
\* states, target points, expression and what is_satisfied() returns.
C10_NoMatchIsNoOp ==
    [][(/\ last'.op = "satisfy_me"
        /\ last'.arg \cap DictKeys(satisfied) = {}) =>
        /\ last'.exc = ""
        /\ last'.ret = {}
        /\ satisfied' = satisfied
        /\ target_point_strings' = target_point_strings
        /\ conditional_expression' = conditional_expression
        /\ IsSatisfiedCall(satisfied', conditional_expression', all_satisfied').exc
               = IsSatisfiedCall(satisfied, conditional_expression, all_satisfied).exc
        /\ IsSatisfiedCall(satisfied', conditional_expression', all_satisfied').val
               = IsSatisfiedCall(satisfied, conditional_expression, all_satisfied).val]_vars

\* satisfy_me was given outputs, none of them a dependency, on a conditional
\* prerequisite that has dependencies
C10_Witness ==
    /\ last.op = "satisfy_me"
    /\ last.arg # {}
    /\ last.arg \cap DictKeys(satisfied) = {}
    /\ Len(satisfied) > 0
    /\ conditional_expression # None

\* C11: satisfy_me is idempotent: in the state a call satisfy_me(S) left,
\* calling it again with the same S (the set iterating in the same order, so
\* that the message visited first is one the first call marked) leaves the
\* dependency states and the cached value as they are, gives the same
\* is_satisfied() result, and has the same outcome as the first call: the
\* same matched set (or, where the first call raised, the same exception).
C11_SatisfyMeIdempotent ==
    last.op = "satisfy_me" =>
        \A first \in FirstMessages(satisfied, conditional_expression, last.arg) :
            (first # None => DictGet(satisfied, first) = DEP_STATE_SATISFIED) =>
                LET twice == SatisfyMeCall(satisfied, conditional_expression,
                                           all_satisfied, last.arg, first)
                    a == IsSatisfiedCall(satisfied, conditional_expression,
                                         all_satisfied)
                    b == IsSatisfiedCall(twice.sat, conditional_expression,
                                         twice.cache)
                IN  /\ twice.sat = satisfied
                    /\ twice.cache = all_satisfied
                    /\ twice.exc = last.exc
                    /\ last.exc = "" => twice.ret = last.ret
                    /\ b.exc = a.exc
                    /\ a.exc = "" => b.val = a.val

\* satisfy_me matched two dependencies of a prerequisite with an expression
\* attached, marked both and cached the evaluation
C11_Witness ==
    /\ last.op = "satisfy_me"
    /\ last.exc = ""
    /\ Cardinality(last.ret) = 2
    /\ conditional_expression # None
    /\ all_satisfied # None
    /\ \A m \in last.ret : DictGet(satisfied, m) = DEP_STATE_SATISFIED

\* C12: set_satisfied changes the state of exactly the Unsatisfied
\* dependencies, to 'force satisfied'; every other dependency keeps its
\* state, and the keys, their order, the target points and the attached
\* expression are unchanged.
C12_SetSatisfiedFrame ==
    [][last'.op = "set_satisfied" =>
        /\ Len(satisfied') = Len(satisfied)
        /\ \A i \in 1..Len(satisfied) :
            /\ satisfied'[i][1] = satisfied[i][1]
            /\ satisfied'[i][2] =
                   IF satisfied[i][2] = DEP_STATE_UNSATISFIED
                   THEN DEP_STATE_OVERRIDDEN
                   ELSE satisfied[i][2]
        /\ target_point_strings' = target_point_strings
        /\ conditional_expression' = conditional_expression]_vars

\* set_satisfied overrode one dependency and left a naturally satisfied one
C12_Witness ==
    /\ last.op = "set_satisfied"
    /\ \E i, j \in 1..Len(satisfied) :
        /\ satisfied[i][2] = DEP_STATE_OVERRIDDEN
        /\ satisfied[j][2] = DEP_STATE_SATISFIED

\* C13: on a prerequisite with no expression attached and at least one
\* dependency, is_satisfied() called right after set_satisfied() returns
\* True.
C13_SetSatisfiedThenSatisfied ==
    (last.op = "set_satisfied" /\ conditional_expression = None
        /\ Len(satisfied) >= 1) =>
        LET r == IsSatisfiedCall(satisfied, conditional_expression, all_satisfied)
        IN  r.exc = "" /\ r.val = TRUE

\* set_satisfied was called on an AND-only prerequisite and overrode a
\* dependency
C13_Witness ==
    /\ last.op = "set_satisfied"
    /\ conditional_expression = None
    /\ \E i \in 1..Len(satisfied) : satisfied[i][2] = DEP_STATE_OVERRIDDEN

\* the value of an expression list when every leaf has the truth value b
RECURSIVE TreeValue(_, _)
TreeValue(e, b) ==
    LET V(k) == IF e[k].kind = "list" THEN TreeValue(e[k].val, b) ELSE b
        F[k \in 1..Len(e)] ==
            IF k = 1 THEN V(1) ELSE Connective(e[k - 1].val, F[k - 2], V(k))
    IN  F[Len(e)]

\* C14: set_not_satisfied sets every dependency to Unsatisfied and caches
\* True if there is no dependency, False if there are dependencies and no
\* expression, and otherwise the value of the attached tree with every leaf
\* false; is_satisfied() called right afterwards returns that value (stated
\* for the prerequisites whose expression is over registered dependencies).
C14_SetNotSatisfiedEffect ==
    (TreeOverDependencies /\ last.op = "set_not_satisfied") =>
        LET expected ==
                IF Len(satisfied) = 0 THEN TRUE
                ELSE IF conditional_expression = None THEN FALSE
                ELSE TreeValue(conditional_expression[1].orig_list, FALSE)
            r == IsSatisfiedCall(satisfied, conditional_expression, all_satisfied)
        IN  /\ last.exc = ""
            /\ \A i \in 1..Len(satisfied) :
                   satisfied[i][2] = DEP_STATE_UNSATISFIED
            /\ all_satisfied = Some(expected)
            /\ r.exc = ""
            /\ r.val = expected

\* the '<point>/<name>' strings, in insertion order, of the dependencies
\* that one of the given kinds of call made satisfied since they were last
\* Unsatisfied
ListedBy(hows) ==
    LET kept == SelectSeq(satisfied,
                    LAMBDA kv : \E h \in HistoryOf(kv[1]) : h[2] \in hows)
    IN  [i \in 1..Len(kept) |-> ResolvedString(kept[i][1])]

DepthAfter(text, k) ==
    Cardinality({i \in 1..k : text[i] = "("})
        - Cardinality({i \in 1..k : text[i] = ")"})

\* every ')' closes a '(' before it and no '(' is left open
Balanced(text) ==
    /\ \A k \in 1..Len(text) : DepthAfter(text, k) >= 0
    /\ DepthAfter(text, Len(text)) = 0

\* C16: listify_str_expression raises (ValueError) exactly when the
\* parentheses of the text are unbalanced; on every balanced text, '((a))'
\* and '()' included, it returns a list.
C16_RaisesIffUnbalanced ==
    last.op = "listify_str_expression" =>
        /\ last.exc # "" <=> ~Balanced(last.arg)
        /\ last.exc # "" => last.exc = "ValueError"

\* the text '((a))' was parsed, to the list ['a']
C16_Witness ==
    /\ last.op = "listify_str_expression"
    /\ last.arg = <<"(", "(", "a", ")", ")">>
    /\ last.exc = ""
    /\ last.ret = <<OperatorItem("a")>>

\* the (1-based) place of a dependency key among the keys in ascending order
PlaceOf(k) == 1 + Cardinality({j \in DictKeys(satisfied) : TupleLess(j, k)})

\* C17: api_dump returns None when there is no dependency; otherwise it
\* returns one condition record per dependency, in ascending order of the
\* keys, whose satisfied flag is the truthiness of the dependency's state
\* and whose message is 'unsatisfied' when that is false and the state label
\* otherwise, and an overall satisfied flag equal to is_satisfied() (stated
\* for the prerequisites whose expression is over registered dependencies).
C17_ApiDumpConditions ==
    (TreeOverDependencies /\ last.op = "api_dump") =>
        /\ last.exc = ""
        /\ Len(satisfied) = 0 => last.ret = None
        /\ Len(satisfied) > 0 =>
            /\ last.ret # None
            /\ Len(last.ret.conditions) = Len(satisfied)
            /\ \A k \in DictKeys(satisfied) :
                LET c == last.ret.conditions[PlaceOf(k)]
                    state == DictGet(satisfied, k)
                IN  /\ c.task_proxy = k[1] \o "/" \o k[2]
                    /\ c.req_state = k[3]
                    /\ c.satisfied = (state # DEP_STATE_UNSATISFIED)
                    /\ c.message = IF state = DEP_STATE_UNSATISFIED
                                   THEN "unsatisfied" ELSE state
            /\ LET r == IsSatisfiedCall(satisfied, conditional_expression,
                                        all_satisfied)
               IN  r.exc = "" /\ last.ret.satisfied = r.val

\* C18: after set_condition(tree) the attached expression is the tree if
\* tree.is_conditional is true and no expression is attached otherwise, an
\* earlier set_condition call notwithstanding; the cache is Unknown in both
\* cases.
C18_SetConditionEffect ==
    last.op = "set_condition" =>
        /\ conditional_expression =
               IF last.arg.is_conditional THEN Some(last.arg) ELSE None
        /\ all_satisfied = None

\* C19: right after every add call the cache holds no value.
C19_AddClearsCache ==
    last.op = "add" => all_satisfied = None

\* the message has the field, for a message that is a dict
HasField(message, key) == key \in DictKeys(message.items)

\* C20: receiver never raises: it returns a ResponseTuple whose err is set
\* for a message that is not a dict, for a message without 'command' or
\* 'args', for a command that names no method and for a method that raises;
\* when the method returns normally it returns a ResponseTuple with content
\* set and err None.
C20_ReceiverNeverRaises ==
    last.op = "receiver" =>
        LET message == last.arg[1]
            called == /\ message.type = "dict"
                      /\ HasField(message, "command")
                      /\ HasField(message, "args")
                      /\ DictGet(message.items, "command") = PyStr("api")
                      /\ DictGet(message.items, "args").type = "dict"
        IN  /\ last.exc = ""
            /\ IF called /\ last.arg[2] = "returns"
               THEN last.ret.content # None /\ last.ret.err = None
               ELSE last.ret.err # None /\ last.ret.content = None

\* the leaves of an ExpressionList object, nested ones included
RECURSIVE LeavesOf(_)
LeavesOf(self) ==
    UNION {IF self.items[j].kind = "MessageTuple"
           THEN {self.items[j].m}
           ELSE LeavesOf(self.items[j]) : j \in 1..Len(self.items)}

\* C21: the leaf ExpressionList builds for a trigger (name n, resolved point
\* p, output o) is the key add(n, p, o) registers; so when the attached tree
\* was built from triggers that were all added, every leaf of the tree is a
\* key of the dependency dict and evaluating the tree raises no KeyError.
C21_LeavesAreKeys ==
    (conditional_expression # None /\ TreeOverDependencies) =>
        /\ \A t \in TriggersOf(conditional_expression[1].orig_list) :
               LeafMessage(t, ThePoint) =
                   AddMessage(t.task_name, TaskTriggerGetPoint(t, ThePoint),
                              t.output)
        /\ LeavesOf(conditional_expression[1]) \subseteq DictKeys(satisfied)
        /\ Evaluate(conditional_expression[1], satisfied).exc # "KeyError"

\* C22: each satisfy_me call evaluates the prerequisite exactly once, however
\* many dependencies matched, and the cache then holds the evaluation of the
\* dependency states the call left.
C22_SatisfyMeEvaluatesOnce ==
    [][last'.op = "satisfy_me" =>
        /\ SatisfyMeEvaluations(satisfied, conditional_expression, last'.arg) = 1
        /\ Recompute(satisfied', conditional_expression').exc = "" =>
               all_satisfied' =
                   Some(Recompute(satisfied', conditional_expression').val)]_vars

\* C23 as stated: there is a conditional prerequisite, every leaf of its tree
\* a registered dependency, for which is_satisfied() returns false right
\* after set_satisfied(): looked for among the dependency states reached and
\* every state of the triggers' leaves, under the attached expression and
\* every expression over the triggers.
C23_ForcedCanReadFalse ==
    \E e \in {ExpressionList(x, ThePoint) : x \in EvalExprInputs}
                \cup {conditional_expression[i] :
                        i \in 1..Len(conditional_expression)},
       d \in EvalDicts \cup {satisfied} :
        /\ e.is_conditional
        /\ LeavesOf(e) \subseteq DictKeys(d)
        /\ LET forced == ForceSatisfied(d)
               r == SetSatisfiedResult(forced, Some(e))
           IN  /\ r.exc = ""
               /\ IsSatisfiedCall(forced, Some(e), Some(r.val)).val = FALSE

\* C23 (amended): set_satisfied evaluates the attached tree over the forced
\* states, and on a conditional prerequisite whose tree leaves are all
\* registered dependencies that evaluation is true: the call raises nothing,
\* caches True, and is_satisfied() called right afterwards returns True.
C23_ForcedReadsSatisfied ==
    (/\ last.op = "set_satisfied"
     /\ conditional_expression # None
     /\ LeavesOf(conditional_expression[1]) \subseteq DictKeys(satisfied)) =>
        /\ last.exc = ""
        /\ all_satisfied = Some(TRUE)
        /\ IsSatisfiedCall(satisfied, conditional_expression, all_satisfied)
               = [exc |-> "", val |-> TRUE, cache |-> Some(TRUE)]

\* set_satisfied overrode a dependency of a conditional prerequisite whose
\* leaves are all registered
C23_Witness ==
    /\ last.op = "set_satisfied"
    /\ conditional_expression # None
    /\ LeavesOf(conditional_expression[1]) \subseteq DictKeys(satisfied)
    /\ \E i \in 1..Len(satisfied) : satisfied[i][2] = DEP_STATE_OVERRIDDEN

C25_ReadOnlyCalls ==
    [][last'.op \in {"is_satisfied", "api_dump"} =>
        /\ satisfied' = satisfied
        /\ target_point_strings' = target_point_strings
        /\ conditional_expression' = conditional_expression
        /\ \/ all_satisfied' = all_satisfied
           \/ /\ all_satisfied = None
              /\ FreshEvaluation.exc = ""
              /\ all_satisfied' = Some(FreshEvaluation.val)]_vars

\* api_dump was called on a conditional prerequisite with dependencies and
\* the cache holds a value
C25_Witness ==
    /\ last.op = "api_dump"
    /\ last.exc = ""
    /\ Len(satisfied) > 0
    /\ conditional_expression # None
    /\ all_satisfied # None
    /\ last.ret.satisfied = all_satisfied[1]

\* C26: a report (is_satisfied or api_dump) that found the cache Unknown and
\* interleaved with the owner's satisfy_me, set_satisfied or
\* set_not_satisfied calls leaves, once it has completed, no stale value in
\* the cache: a cached value equals a fresh evaluation of the dependency
\* states.
C26_RaceIsBenign ==
    (reader.pc = "done" /\ reader.unknown /\ all_satisfied # None) =>
        /\ FreshEvaluation.exc = ""
        /\ all_satisfied[1] = FreshEvaluation.val

\* C27: satisfaction is monotone under arrivals: while only satisfy_me,
\* is_satisfied and api_dump are called (since the last add, set_condition
\* or set_not_satisfied), a dependency that has been truthy is still truthy,
\* and once is_satisfied() has returned True it returns True: the last call,
\* if it was is_satisfied or api_dump, reported True, and so would a call
\* made now.
C27_MonotoneUnderArrivals ==
    /\ \A h \in arrived :
           h[1] = "truthy" =>
               /\ h[2] \in DictKeys(satisfied)
               /\ Bool(DictGet(satisfied, h[2]))
    /\ ReturnedTrue \in arrived =>
           /\ IsSatisfiedCall(satisfied, conditional_expression,
                              all_satisfied).exc = ""
           /\ IsSatisfiedCall(satisfied, conditional_expression,
                              all_satisfied).val = TRUE
           /\ last.op = "is_satisfied" => (last.exc = "" /\ last.ret = TRUE)
           /\ (last.op = "api_dump" /\ Len(satisfied) > 0) =>
                  (last.exc = "" /\ last.ret.satisfied = TRUE)

\* after is_satisfied() returned True on a conditional prerequisite with a
\* dependency still unsatisfied, a satisfy_me call delivered that dependency
C27_Witness ==
    /\ ReturnedTrue \in arrived
    /\ conditional_expression # None
    /\ last.op = "satisfy_me"
    /\ last.exc = ""
    /\ last.ret # {}
    /\ \E m \in last.ret : <<"truthy", m>> \in arrived
    /\ Cardinality({h \in arrived : h[1] = "truthy"}) = 2

\* the prerequisite is AND-only, or every leaf of its tree is a registered
\* dependency
LeavesRegistered ==
    \/ conditional_expression = None
    \/ LeavesOf(conditional_expression[1]) \subseteq DictKeys(satisfied)

\* is_satisfied() returns True, and did if it was the last call
ReadsSatisfied ==
    /\ IsSatisfiedCall(satisfied, conditional_expression, all_satisfied).exc = ""
    /\ IsSatisfiedCall(satisfied, conditional_expression, all_satisfied).val = TRUE
    /\ last.op = "is_satisfied" => (last.exc = "" /\ last.ret = TRUE)

\* every registered dependency has been included in a satisfy_me call
\* since the last add and set_condition call
AllDelivered == arrived # {} /\ DictKeys(satisfied) \subseteq arrived

RECURSIVE FirstPoints(_)
FirstPoints(sat) ==
    IF Len(sat) = 0
    THEN <<>>
    ELSE LET before == FirstPoints(SubSeq(sat, 1, Len(sat) - 1))
             point == sat[Len(sat)][1][1]
         IN  IF \E i \in 1..Len(before) : before[i] = point
             THEN before
             ELSE Append(before, point)

\* C29: in every reachable state target_point_strings has no duplicates, is
\* in the order of first insertion, and holds exactly the point strings of
\* the dependency keys, whatever point values add was given.
C29_TargetPointsAreKeyPoints ==
    /\ \A i, j \in 1..Len(target_point_strings) :
           target_point_strings[i] = target_point_strings[j] => i = j
    /\ {target_point_strings[i] : i \in 1..Len(target_point_strings)}
           = {k[1] : k \in DictKeys(satisfied)}
    /\ target_point_strings = FirstPoints(satisfied)

\* C30: on a prerequisite with no dependencies and a conditional expression
\* attached, is_satisfied, api_dump, satisfy_me, set_satisfied and
\* set_not_satisfied raise nothing (the tree is not evaluated against the
\* empty dict), and is_satisfied() returns True afterwards.
C30_EmptyConditionalShortCircuits ==
    (/\ Len(satisfied) = 0
     /\ conditional_expression # None
     /\ last.op \in {"is_satisfied", "api_dump", "satisfy_me",
                     "set_satisfied", "set_not_satisfied"}) =>
        /\ last.exc = ""
        /\ IsSatisfiedCall(satisfied, conditional_expression,
                           all_satisfied).exc = ""
        /\ IsSatisfiedCall(satisfied, conditional_expression,
                           all_satisfied).val = TRUE

(***************************************************************************)
(* ExpressionList.__init__ as a function of the shape of its list: lists   *)
(* of any items, well formed or not (prerequisite.py:54-86).               *)
(***************************************************************************)
\* items in a list
MaxShape == 3

\* a token that is neither an operator nor a TaskTrigger
UnknownItem == [kind |-> "str", val |-> "x"]

\* the nested lists tried as operands
NestedShapes ==
    <<<<>>,
      <<Triggers[1]>>,
      <<OperatorItem("&")>>,
      <<Triggers[1], OperatorItem("&")>>,
      <<Triggers[1], OperatorItem("|"), Triggers[3]>>>>

\* the items a list is made of
ShapeItems ==
    <<Triggers[1], Triggers[3], OperatorItem("&"), OperatorItem("|"),
      UnknownItem>> \o [j \in 1..Len(NestedShapes) |-> ListItem(NestedShapes[j])]

\* the list holding the items numbered f[1], ..., f[n]
ShapeList(f) == [k \in 1..Len(f) |-> ShapeItems[f[k]]]

ShapeInit ==
    /\ satisfied = <<>>
    /\ all_satisfied = None
    /\ target_point_strings = <<>>
    /\ conditional_expression = None
    /\ arrived = {}
    /\ reader = NoReader
    /\ frame = NoFrame
    /\ server = NoServer
    /\ \E n \in 0..MaxShape : \E f \in [1..n -> 1..Len(ShapeItems)] :
           last = Call("list", ShapeList(f), None, "")

\* ExpressionList(expr, point): the tree, or the exception raised
CallExpressionList ==
    /\ last.op = "list"
    /\ LET r == ExpressionList(last.arg, ThePoint)
       IN  last' = IF r.kind = "raise"
                   THEN Call("ExpressionList", last.arg, None, r.exc)
                   ELSE Call("ExpressionList", last.arg, Some(r), "")
    /\ UNCHANGED <<satisfied, all_satisfied, target_point_strings,
                   conditional_expression, arrived, reader, frame, server>>

ShapeNext == CallExpressionList

ShapeSpec == ShapeInit /\ [][ShapeNext]_vars

\* a list that alternates operand, operator, ..., operand: an odd number of
\* items, operands TaskTriggers or well-formed nested lists, operators
\* '&' or '|'
RECURSIVE WellFormed(_)
WellFormed(expr) ==
    /\ Len(expr) % 2 = 1
    /\ \A k \in 1..Len(expr) :
           IF k % 2 = 1
           THEN \/ expr[k].kind = "TaskTrigger"
                \/ expr[k].kind = "list" /\ WellFormed(expr[k].val)
           ELSE expr[k].kind = "str" /\ expr[k].val \in OpMapKeys

\* C31: building a tree from a nested list succeeds only if the list
\* alternates operand, operator, ..., operand with '&' or '|' operators,
\* starting and ending with an operand; every other shape (a trailing
\* operator and the empty list included) is rejected with a
\* TriggerExpressionError and yields no tree.
C31_OnlyWellFormedBuilds ==
    last.op = "ExpressionList" =>
        /\ last.exc = "" => WellFormed(last.arg)
        /\ ~ WellFormed(last.arg) =>
               last.exc = "TriggerExpressionError" /\ last.ret = None

(***************************************************************************)
(* cylc/flow/trigger_expression.py: TriggerExpression.__init__, run one    *)
(* step at a time.  frame holds the locals of the constructor and of the   *)
(* _process_trigger call it is in: [pc, expr, expr_list, i, caller, value, *)
(* stack, item, first, operators, triggers, is_conditional, exc]; value,   *)
(* item and the elements of stack refer to elements of expr_list and are   *)
(* held as their positions in it (0: no object).                           *)
(***************************************************************************)
\* the task_triggers dict given to the constructor: label -> TaskTrigger
TaskTriggers == <<<<"a", Triggers[3]>>>>

\* a token list that alternates operand, operator, ..., operand, every
\* operand a key of task_triggers or such a list, every operator '&' or '|'
RECURSIVE WellFormedTokens(_)
WellFormedTokens(l) ==
    /\ Len(l) % 2 = 1
    /\ \A k \in 1..Len(l) :
           IF k % 2 = 1
           THEN \/ l[k].kind = "str" /\ l[k].val \in DictKeys(TaskTriggers)
                \/ l[k].kind = "list" /\ WellFormedTokens(l[k].val)
           ELSE l[k].kind = "str" /\ l[k].val \in OpMapKeys

\* a text that parses into such a list
WellFormedText(text) ==
    LET r == ListifyStrExpression(text)
    IN  r.exc = "" /\ WellFormedTokens(r.val)

\* the text 'a&(a|a)' (the docstring's 'foo & (bar | baz)')
GroupText == <<"a", "&", "(", "a", "|", "a", ")">>

\* the well-formed texts, the text with a group among them
WellFormedTexts == {t \in Texts : WellFormedText(t)} \cup {GroupText}

\* the texts the constructor is given: every well-formed text and every
\* short text, well formed or not
TriggerTexts == WellFormedTexts \cup {t \in Texts : Len(t) <= 2}

TriggerInit ==
    /\ satisfied = <<>>
    /\ all_satisfied = None
    /\ target_point_strings = <<>>
    /\ conditional_expression = None
    /\ arrived = {}
    /\ reader = NoReader
    /\ server = NoServer
    /\ last = Call("str", None, None, "")
    /\ \E text \in TriggerTexts :
           frame = [pc |-> "start", expr |-> text, expr_list |-> <<>>,
                    i |-> 0, caller |-> "", value |-> 0, stack |-> <<>>,
                    item |-> 0, first |-> None, operators |-> <<>>,
                    triggers |-> <<>>, is_conditional |-> FALSE, exc |-> ""]

TriggerFrame ==
    UNCHANGED <<satisfied, all_satisfied, target_point_strings,
                conditional_expression, last, arrived, reader, server>>

\* the constructor raises exc
TriggerRaise(exc) == frame' = [frame EXCEPT !.pc = "raised", !.exc = exc]

\* self._process_trigger(value, task_triggers) is entered: line 146
ProcessEnter(f, value, caller) ==
    [f EXCEPT !.pc = "while", !.caller = caller, !.value = value,
              !.stack = <<value>>, !.item = 0]

\* lines 112-116: the text is parsed and _process_trigger is called on the
\* first element
TriggerStart ==
    /\ frame.pc = "start"
    /\ LET r == ListifyStrExpression(frame.expr)
       IN  IF r.exc # ""
           THEN TriggerRaise(r.exc)
           ELSE IF Len(r.val) = 0
           THEN TriggerRaise("IndexError")
           ELSE frame' = ProcessEnter(
                    [frame EXCEPT
                        !.is_conditional =
                            \E k \in 1..Len(frame.expr) : frame.expr[k] = "|",
                        !.expr_list = r.val],
                    1, "first")
    /\ TriggerFrame

\* _process_trigger returns ret to its caller: line 116 and lines 118-119,
\* or line 133
ProcessReturn(ret) ==
    frame' = IF frame.caller = "first"
             THEN [frame EXCEPT !.pc = "for", !.first = Some(ret),
                                !.triggers = <<>>, !.operators = <<"and_">>,
                                !.i = 0]
             ELSE [frame EXCEPT !.pc = "for",
                                !.triggers = Append(frame.triggers, ret),
                                !.i = frame.i + 1]

\* lines 147-148: `while stack:` and `item = stack.pop()`; the function
\* returns None when the stack is empty
ProcessWhile ==
    /\ frame.pc = "while"
    /\ IF frame.stack = <<>>
       THEN ProcessReturn(None)
       ELSE frame' = [frame EXCEPT
                         !.pc = "test",
                         !.item = frame.stack[Len(frame.stack)],
                         !.stack = SubSeq(frame.stack, 1, Len(frame.stack) - 1)]
    /\ TriggerFrame

\* lines 149-154: a list is put back on the stack; a key of task_triggers
\* returns task_triggers[value]; anything else raises
\* TriggerExpressionError, which the constructor raises again (134-135)
ProcessTest ==
    /\ frame.pc = "test"
    /\ LET item == frame.expr_list[frame.item]
           value == frame.expr_list[frame.value]
       IN  IF item.kind = "list"
           THEN frame' = [frame EXCEPT !.pc = "while",
                                       !.stack = Append(frame.stack, frame.item)]
           ELSE IF item.val \in DictKeys(TaskTriggers)
           THEN IF value.kind = "list"
                THEN TriggerRaise("TypeError")
                ELSE ProcessReturn(DictGet(TaskTriggers, value.val))
           ELSE TriggerRaise("TriggerExpressionError")
    /\ TriggerFrame

\* lines 121-133: one item of expr_list[1:], an operator at the even
\* indices of the enumeration, an operand at the odd ones
TriggerFor ==
    /\ frame.pc = "for"
    /\ frame.i + 2 <= Len(frame.expr_list)
    /\ LET item == frame.expr_list[frame.i + 2]
       IN  IF frame.i % 2 = 0
           THEN IF item.kind = "str" /\ item.val \in OpMapKeys
                THEN frame' = [frame EXCEPT
                                  !.operators =
                                      Append(frame.operators, OpMap(item.val)),
                                  !.i = frame.i + 1]
                ELSE TriggerRaise("TriggerExpressionError")
           ELSE frame' = ProcessEnter(frame, frame.i + 2, "for")
    /\ TriggerFrame

\* lines 137-141, after the loop
TriggerEnd ==
    /\ frame.pc = "for"
    /\ frame.i + 2 > Len(frame.expr_list)
    /\ IF Len(frame.expr_list) % 2 = 0
       THEN TriggerRaise("TriggerExpressionError")
       ELSE frame' = [frame EXCEPT
                         !.pc = "returned",
                         !.is_conditional =
                             \/ frame.is_conditional
                             \/ \E k \in 1..Len(frame.operators) :
                                    frame.operators[k] = "or_"]
    /\ TriggerFrame

\* TriggerExpression.__str__, lines 156-165: line 158 reads self._data,
\* an attribute that neither the constructor nor the class sets
TriggerExpressionStr(self) == Raise("AttributeError")

\* str(tree) for the tree the constructor returned
TriggerStr ==
    /\ frame.pc = "returned"
    /\ LET r == TriggerExpressionStr(frame)
       IN  last' = Call("__str__", frame.expr, r.val, r.exc)
    /\ frame' = [frame EXCEPT !.pc = "rendered"]
    /\ UNCHANGED <<satisfied, all_satisfied, target_point_strings,
                   conditional_expression, arrived, reader, server>>

TriggerNext ==
    \/ TriggerStart
    \/ ProcessWhile
    \/ ProcessTest
    \/ TriggerFor
    \/ TriggerEnd
    \/ TriggerStr

\* the constructor runs in the calling thread, which executes its next
\* instruction whenever it has one
TriggerSpec == TriggerInit /\ [][TriggerNext]_vars /\ WF_vars(TriggerNext)

\* C32: constructing a TriggerExpression terminates for every well-formed
\* expression text, texts with a parenthesized group included: the
\* constructor returns.
C32_ConstructorReturns ==
    frame.expr \in WellFormedTexts => <>(frame.pc = "returned")

\* a pair of parentheses around a single operand: positions <<i, j>> of a
\* '(' and a ')' with only the characters of one operand between them,
\* the group standing where an operand can stand (after a delimiter or at
\* the start, before a delimiter or at the end)
WrappedOperands(text) ==
    {p \in (1..Len(text)) \X (1..Len(text)) :
        /\ p[1] < p[2]
        /\ text[p[1]] = "("
        /\ text[p[2]] = ")"
        /\ \A k \in (p[1] + 1)..(p[2] - 1) : ~ IsDelimiter(text[k])
        /\ \E k \in (p[1] + 1)..(p[2] - 1) : text[k] # " "
        /\ LET before == {k \in 1..(p[1] - 1) : text[k] # " "}
               after == {k \in (p[2] + 1)..Len(text) : text[k] # " "}
           IN  /\ before = {} \/
                     IsDelimiter(text[CHOOSE k \in before : \A h \in before : h <= k])
               /\ after = {} \/
                     IsDelimiter(text[CHOOSE k \in after : \A h \in after : k <= h])}

\* the text with every pair of parentheses around a single operand taken
\* away (blanked), innermost first, until none is left
RECURSIVE Unwrapped(_)
Unwrapped(text) ==
    IF WrappedOperands(text) = {}
    THEN text
    ELSE LET p == CHOOSE q \in WrappedOperands(text) : TRUE
         IN  Unwrapped([text EXCEPT ![p[1]] = " ", ![p[2]] = " "])

\* no list nested in l, at any depth, has exactly one element
RECURSIVE NoSingletonInside(_)
NoSingletonInside(l) ==
    \A k \in 1..Len(l) :
        l[k].kind = "list" =>
            Len(l[k].val) # 1 /\ NoSingletonInside(l[k].val)

\* C33: listify_str_expression collapses every parenthesized group of one
\* element to that element, at any depth: a text in which operands are
\* wrapped in one or more pairs of parentheses parses as the text without
\* those parentheses, and no list nested in the result has length 1.
C33_SingletonGroupsCollapse ==
    last.op = "listify_str_expression" =>
        /\ ListifyStrExpression(Unwrapped(last.arg)) =
               [exc |-> last.exc, val |-> last.ret]
        /\ last.exc = "" => NoSingletonInside(last.ret)

\* '((a))' has been parsed into ['a']
C33_Witness ==
    /\ last.op = "listify_str_expression"
    /\ last.arg = <<"(", "(", "a", ")", ")">>
    /\ last.ret = <<OperatorItem("a")>>
    /\ Unwrapped(last.arg) = <<" ", " ", "a", " ", " ">>

\* the value of a token list under the truth values b of its operands,
\* folded from left to right: the value of items 1..k
RECURSIVE TokensValueUpTo(_, _, _)
TokensValueUpTo(l, b, k) ==
    LET operand == IF l[k].kind = "list"
                   THEN TokensValueUpTo(l[k].val, b, Len(l[k].val))
                   ELSE b[l[k].val]
    IN  IF k = 1
        THEN operand
        ELSE IF l[k - 1].val = "&"
             THEN TokensValueUpTo(l, b, k - 2) /\ operand
             ELSE TokensValueUpTo(l, b, k - 2) \/ operand

\* C34: round trip: for every well-formed expression, parsing it, building
\* the tree and rendering the tree gives a string that parses and rebuilds
\* to a tree with the same evaluation result as the original for every
\* assignment of leaf truth values.
C34_RoundTrip ==
    last.op = "__str__" =>
        /\ last.exc = ""
        /\ LET r == ListifyStrExpression(last.ret)
           IN  /\ r.exc = ""
               /\ WellFormedTokens(r.val)
               /\ \A b \in [DictKeys(TaskTriggers) -> BOOLEAN] :
                      TokensValueUpTo(r.val, b, Len(r.val)) =
                          TokensValueUpTo(frame.expr_list, b,
                                          Len(frame.expr_list))

\* the mapping d without the entries of the dependencies outside keys
Restricted(d, keys) ==
    LET kept == {i \in 1..Len(d) : d[i][1] \in keys}
    IN  [j \in 1..Cardinality(kept) |->
            d[CHOOSE i \in kept : Cardinality({h \in kept : h < i}) = j - 1]]

\* the mappings that give every dependency in keys the state d gives it
AgreeingWith(d, keys) ==
    {e \in EvalDicts \cup {Restricted(x, keys) : x \in EvalDicts} :
        \A m \in keys : m \in DictKeys(e) /\ DictGet(e, m) = DictGet(d, m)}

\* C35: evaluate is a deterministic function of the states of the tree's
\* own leaves: an evaluation under the same mapping, or under any mapping
\* that agrees on every leaf of the tree whatever it says about other
\* dependencies, gives the result this one gave, and evaluate leaves the
\* mapping (and the tree) as they were.
C35_EvaluateReadsOwnLeaves ==
    [][last'.op = "evaluate" =>
          /\ satisfied' = satisfied
          /\ conditional_expression' = conditional_expression
          /\ \A d \in {satisfied} \cup
                      AgreeingWith(satisfied,
                                   LeavesOf(conditional_expression[1])) :
                 Evaluate(conditional_expression[1], d) =
                     [exc |-> last'.exc, val |-> last'.ret]]_vars

\* a tree that leaves a dependency out has been evaluated to True under a
\* mapping in which that dependency is unsatisfied
C35_Witness ==
    /\ last.op = "evaluate"
    /\ last.exc = ""
    /\ last.ret = TRUE
    /\ \E m \in DictKeys(satisfied) \ LeavesOf(conditional_expression[1]) :
           DictGet(satisfied, m) = DEP_STATE_UNSATISFIED
    /\ Cardinality(AgreeingWith(satisfied,
                                LeavesOf(conditional_expression[1]))) > 2

(***************************************************************************)
(* api_dump on prerequisites whose dependencies' renderings can be parts   *)
(* of one another: tasks 1 and 11 at the points 1 and 11.  The triggers of *)
(* the expressions are the tasks 1 and 11 at the task's own point, 1,      *)
(* whose leaves are the keys of task 1 at the points 1 and 11.             *)
(***************************************************************************)
DumpNames == {"1", "11"}
DumpPoints ==
    {[kind |-> "PointBase", value |-> 1], [kind |-> "PointBase", value |-> 11]}
DumpTriggers == <<TaskTrigger("1", "succeeded"), TaskTrigger("11", "succeeded")>>
DumpExprObjects ==
    {ExpressionList(e, ThePoint) :
     e \in UNION {RawLists(ts, MaxDepth) : ts \in SubSeqs(DumpTriggers)}}

DumpAdd ==
    /\ \E n \in DumpNames, p \in DumpPoints, b \in BOOLEAN :
           Add(n, p, "succeeded", b)
    /\ UNCHANGED <<arrived, reader, frame, server>>
DumpSetCondition ==
    /\ \E expr \in DumpExprObjects : SetCondition(expr)
    /\ UNCHANGED <<arrived, reader, frame, server>>
DumpApiDump == ApiDump /\ UNCHANGED <<arrived, reader, frame, server>>

DumpNext ==
    \/ DumpAdd
    \/ DumpSetCondition
    \/ DumpApiDump

DumpSpec == Init /\ [][DumpNext]_vars

\* the alias of the condition record of the dependency m
ConditionAlias(conds, m) ==
    LET i == CHOOSE j \in 1..Len(conds) :
                 /\ conds[j].task_proxy = RelativeId(m[1], m[2])
                 /\ conds[j].req_state = m[3]
    IN  conds[i].expr_alias

\* the rendering of a tree with the alias of each leaf's dependency in the
\* place of the leaf
RECURSIVE AliasedStr(_, _)
AliasedStr(self, conds) ==
    LET flat_list == FlatList(self)
        ret[k \in 0..Len(flat_list)] ==
            IF k = 0
            THEN <<>>
            ELSE ret[k - 1] \o
                 (IF flat_list[k].kind = "MessageTuple"
                  THEN <<ConditionAlias(conds, flat_list[k].m)>>
                  ELSE IF flat_list[k].kind = "ExpressionList"
                       THEN <<"(">> \o AliasedStr(flat_list[k], conds) \o <<")">>
                       ELSE <<" ", flat_list[k].val, " ">>)
    IN  ret[Len(flat_list)]

\* the string old occurs in the string temp
Occurs(temp, old) ==
    \E i \in 1..(Len(temp) - Len(old) + 1) :
        SubSeq(temp, i, i + Len(old) - 1) = old

\* C36: in the api_dump of a conditional prerequisite the expression string
\* is the tree's rendering with every occurrence of a dependency's
\* rendering '<point>/<name> <output>' replaced by the alias of that
\* dependency's condition record, and no rendering remains, whatever the
\* dependencies: also when one rendering is a part of another's (stated
\* for trees whose leaves are dependencies).
C36_ExpressionIsAliased ==
    (/\ last.op = "api_dump"
     /\ last.exc = ""
     /\ conditional_expression # None
     /\ Len(satisfied) > 0
     /\ LeavesOf(conditional_expression[1]) \subseteq DictKeys(satisfied)) =>
        /\ last.ret.expression =
               AliasedStr(conditional_expression[1], last.ret.conditions)
        /\ \A m \in DictKeys(satisfied) :
               ~ Occurs(last.ret.expression, MessageTemplate(m))

\* C37: for a prerequisite with no expression and two or more
\* dependencies, the expression string of api_dump is the alias of exactly
\* one dependency, the last one in insertion order; no other dependency
\* appears in it.
C37_ExpressionIsLastAlias ==
    (/\ last.op = "api_dump"
     /\ last.exc = ""
     /\ conditional_expression = None
     /\ Len(satisfied) >= 2) =>
        last.ret.expression =
            <<ConditionAlias(last.ret.conditions, satisfied[Len(satisfied)][1])>>

(***************************************************************************)
(* The aliases of api_dump as a function of the number of dependencies     *)
(* (prerequisite.py:333-337).                                              *)
(***************************************************************************)
\* dependencies of one prerequisite
MaxCount == 21

\* num_length for a prerequisite with n dependencies, line 333
NumLengthOf(n) == NumLength([i \in 1..n |-> i])

AliasInit ==
    /\ satisfied = <<>>
    /\ all_satisfied = None
    /\ target_point_strings = <<>>
    /\ conditional_expression = None
    /\ arrived = {}
    /\ reader = NoReader
    /\ frame = NoFrame
    /\ server = NoServer
    /\ \E n \in 1..MaxCount : last = Call("len", <<n>>, None, "")

\* line 337 for the record at index ind of the n sorted keys
CallAlias ==
    /\ \E ind \in 0..(last.arg[1] - 1) :
           last' = Call("alias", <<last.arg[1], ind>>,
                        Alias(ind, NumLengthOf(last.arg[1])), "")
    /\ UNCHANGED <<satisfied, all_satisfied, target_point_strings,
                   conditional_expression, arrived, reader, frame, server>>

AliasNext == CallAlias

AliasSpec == AliasInit /\ [][AliasNext]_vars

\* 'c' and ind written in decimal with zeros in front up to width digits
PaddedAlias(ind, width) ==
    "c" \o Zeros(width - NumDigits(ind)) \o ToString(ind)

\* C38: for a prerequisite with n >= 1 dependencies the aliases are 'c'
\* followed by the record's index, zero-padded to the number of decimal
\* digits of the largest index n-1; they all have that length and are
\* pairwise distinct.
C38_AliasWidth ==
    last.op = "alias" =>
        LET n == last.arg[1]
            ind == last.arg[2]
        IN  /\ last.ret = PaddedAlias(ind, NumDigits(n - 1))
            /\ \A j \in 0..(n - 1) :
                   j # ind => Alias(j, NumLengthOf(n)) # last.ret

(***************************************************************************)
(* receiver given commands that name the attributes of the server, exposed *)
(* or not, with the arguments those attributes take.                       *)
(***************************************************************************)
DispatchCommands ==
    {PyStr("api"), PyStr("stop"), PyStr("operate"), PyStr("start"),
     PyStr("receiver"), PyStr("port"), PyStr("foobar")}
DispatchArgs ==
    {PyDict(<<>>),
     PyDict(<<<<"reason", PyStr("x")>>>>),
     PyDict(<<<<"barrier", PyStr("x")>>>>),
     PyDict(<<<<"message", PyStr("x")>>>>),
     PyDict(<<<<"message",
               MessageDict(Some(PyStr("api")), Some(PyDict(<<>>)), None)>>>>)}

DispatchInit ==
    /\ satisfied = <<>>
    /\ all_satisfied = None
    /\ target_point_strings = <<>>
    /\ conditional_expression = None
    /\ arrived = {}
    /\ reader = NoReader
    /\ frame = NoFrame
    /\ server = NoServer
    /\ \E c \in DispatchCommands, a \in DispatchArgs, m \in MetaValues,
          outcome \in MethodOutcomes :
           last = Call("message", <<MessageDict(Some(c), Some(a), m), outcome>>,
                       None, "")

DispatchSpec == DispatchInit /\ [][ReceiverNext]_vars

\* C39: receiver dispatches a message only to a method marked exposed: a
\* command that names an attribute of the server that is not exposed
\* ('stop', 'operate', 'start', ...) does not enter that method and gets an
\* error response.
C39_OnlyExposedDispatched ==
    last.op = "receiver" =>
        LET message == last.arg[1]
            method == GetAttr(DictGet(message.items, "command"))
            d == Dispatch(message, "user")
        IN  (method.exc = "" /\ ~ method.val.exposed) =>
                /\ ~ (d.exc = "" /\ Binds(d.val.method, d.val.args))
                /\ last.exc = ""
                /\ last.ret.err # None

(***************************************************************************)
(* cylc/flow/network/server.py: the shutdown of the server.  server holds  *)
(* the fields of the WorkflowRuntimeServer object and the positions of the *)
(* two threads that use them: [queue, stopping, stopped, thread, exc,      *)
(* caller].  thread is the position of the server thread, which runs       *)
(* start() and then operate() ("none": no thread; "check", "get",          *)
(* "listen", "publish", "sleep": in the loop of operate; "return": after   *)
(* the break; "exited"), exc the exception that ended it, caller the       *)
(* position of the thread that calls stop().                               *)
(***************************************************************************)
\* messages on the queue before stop() is called
MaxQueue == 3

\* what is put on the queue besides the 'STOP' of stop(), line 215
OtherMessages == {"foobar"}

\* self.thread and self.thread.is_alive(), lines 216 and 233
ThreadAlive(s) == s.thread \notin {"none", "exited"}

\* the server after __init__ (lines 156-159) and, when it is started, after
\* start() has reached operate() (lines 208-211)
ServerInit ==
    /\ satisfied = <<>>
    /\ all_satisfied = None
    /\ target_point_strings = <<>>
    /\ conditional_expression = None
    /\ arrived = {}
    /\ reader = NoReader
    /\ frame = NoFrame
    /\ last = Call("__init__", None, None, "")
    /\ \E started \in BOOLEAN :
           server = [queue |-> <<>>, stopping |-> FALSE,
                     stopped |-> ~ started,
                     thread |-> IF started THEN "check" ELSE "none",
                     exc |-> "", caller |-> "idle"]

ServerFrame ==
    UNCHANGED <<satisfied, all_satisfied, target_point_strings,
                conditional_expression, last, arrived, reader, frame>>

\* operate with its test of the message left out: 'STOP' ends the loop
\* without setting the flag
OperateMessageNoFlag(s, message) ==
    IF message = "STOP"
    THEN [s EXCEPT !.thread = "return"]
    ELSE [s EXCEPT !.thread = "exited", !.exc = "ValueError"]

\* lines 244-247: 'STOP' sets stopping and breaks out of the loop, any
\* other message raises ValueError, which ends the thread
OperateMessage(s, message) ==
    IF message = "STOP"
    THEN [s EXCEPT !.stopping = TRUE, !.thread = "return"]
    ELSE [s EXCEPT !.thread = "exited", !.exc = "ValueError"]

\* line 242: if self.queue.qsize()
OperateCheck ==
    /\ server.thread = "check"
    /\ server' = [server EXCEPT
                     !.thread = IF Len(server.queue) > 0 THEN "get" ELSE "listen"]
    /\ ServerFrame

\* lines 243-247: message = self.queue.get() and what follows
OperateGet ==
    /\ server.thread = "get"
    /\ Len(server.queue) > 0
    /\ server' = OperateMessage([server EXCEPT !.queue = Tail(server.queue)],
                                Head(server.queue))
    /\ ServerFrame

\* lines 249-250: self.replier.listener() takes the requests that wait
OperateListen ==
    /\ server.thread = "listen"
    /\ server' = [server EXCEPT !.thread = "publish"]
    /\ ServerFrame

\* lines 252-255: the publish queue is emptied
OperatePublish ==
    /\ server.thread = "publish"
    /\ server' = [server EXCEPT !.thread = "sleep"]
    /\ ServerFrame

\* lines 257-258: sleep(self.OPERATE_SLEEP_INTERVAL), then the loop starts
\* again
OperateSleep ==
    /\ server.thread = "sleep"
    /\ server' = [server EXCEPT !.thread = "check"]
    /\ ServerFrame

\* operate returns, start returns (line 211) and the thread ends
ThreadReturn ==
    /\ server.thread = "return"
    /\ server' = [server EXCEPT !.thread = "exited"]
    /\ ServerFrame

\* queue.put(message) by another part of the program, before the shutdown
QueuePut ==
    /\ server.caller = "idle"
    /\ Len(server.queue) < MaxQueue
    /\ \E message \in OtherMessages :
           server' = [server EXCEPT !.queue = Append(server.queue, message)]
    /\ ServerFrame

\* stop(), line 215: self.queue.put('STOP')
StopPut ==
    /\ server.caller = "idle"
    /\ server' = [server EXCEPT !.queue = Append(server.queue, "STOP"),
                                !.caller = "alive"]
    /\ ServerFrame

\* line 216: if self.thread and self.thread.is_alive()
StopAlive ==
    /\ server.caller = "alive"
    /\ server' = [server EXCEPT
                     !.caller = IF ThreadAlive(server) THEN "wait" ELSE "cleanup"]
    /\ ServerFrame

\* lines 217-220: while not self.stopping: sleep(...)
StopWait ==
    /\ server.caller = "wait"
    /\ server' = IF server.stopping
                 THEN [server EXCEPT !.caller = "cleanup"]
                 ELSE server
    /\ ServerFrame

\* lines 222-232: the replier, the publisher, the authenticator and the
\* event loop are stopped
StopCleanup ==
    /\ server.caller = "cleanup"
    /\ server' = [server EXCEPT !.caller = "join"]
    /\ ServerFrame

\* lines 233-236: self.thread.join() returns when the thread has ended;
\* then self.stopped = True
StopJoin ==
    /\ server.caller = "join"
    /\ ~ ThreadAlive(server)
    /\ server' = [server EXCEPT !.stopped = TRUE, !.caller = "returned"]
    /\ ServerFrame

\* the steps of the server thread and of a stop() call under way
ThreadStep ==
    \/ OperateCheck
    \/ OperateGet
    \/ OperateListen
    \/ OperatePublish
    \/ OperateSleep
    \/ ThreadReturn
StopStep == StopAlive \/ StopWait \/ StopCleanup \/ StopJoin

ServerNext ==
    \/ OperateCheck
    \/ OperateGet
    \/ OperateListen
    \/ OperatePublish
    \/ OperateSleep
    \/ ThreadReturn
    \/ QueuePut
    \/ StopPut
    \/ StopAlive
    \/ StopWait
    \/ StopCleanup
    \/ StopJoin

\* both threads are scheduled again and again: each sleeps in its loop to
\* yield to the other (lines 219-220 and 257-258)
ServerSpec ==
    ServerInit /\ [][ServerNext]_vars /\ WF_vars(ThreadStep) /\ WF_vars(StopStep)

\* the server thread is in the loop of operate
InLoop == server.thread \in {"check", "get", "listen", "publish", "sleep"}

\* C40: server shutdown completes: once 'STOP' is the next message on the
\* queue of a server whose thread runs the operate loop, the loop
\* eventually takes it, sets stopping and the thread ends (with any other
\* message next, operate raises ValueError); a stop() call then returns
\* with stopped True and the queue empty; and stop() never waits for ever
\* on the stopping flag while the server thread is alive.
C40_ShutdownCompletes ==
    /\ [](InLoop /\ server.queue # <<>> /\ Head(server.queue) = "STOP" =>
             <>(/\ server.thread = "exited"
                /\ server.exc = ""
                /\ server.stopping))
    /\ [](InLoop /\ server.queue # <<>> /\ Head(server.queue) # "STOP" =>
             <>(server.thread = "exited" /\ server.exc = "ValueError"))
    /\ [](server.stopping /\ server.caller # "idle" =>
             <>(/\ server.caller = "returned"
                /\ server.stopped
                /\ server.queue = <<>>))
    /\ []<>(~ (server.caller = "wait" /\ ThreadAlive(server)))

\* stop() has returned after the loop took its 'STOP': the flag is set, the
\* thread has ended, stopped is True and the queue is empty
C40_Witness ==
    /\ server.thread = "exited"
    /\ server.exc = ""
    /\ server.stopping
    /\ server.caller = "returned"
    /\ server.stopped
    /\ server.queue = <<>>

====
